---- MODULE Spec2Model ----
(***************************************************************************)
(* Model of render_graph::render_graph_system (src/src/core/system.h) and  *)
(* of the setup context and tables it works on (graph.h, resource.h,       *)
(* barrier.h).                                                             *)
(*                                                                         *)
(* Vectors are sequences; the code's 0-based index i is At(s, i).          *)
(*                                                                         *)
(* Word width.  The code's handles are uint32_t and a versioned handle is  *)
(* a uint64_t holding two of them.  TLC's integers are 32-bit signed, so   *)
(* the model keeps the layout and scales the word to WordBits bits: a      *)
(* handle is a number below 2^WordBits, the all-ones word is the invalid   *)
(* handle, and a versioned handle has 2*WordBits bits.                     *)
(*                                                                         *)
(* Assertions.  The code reports every error by assert; the model takes    *)
(* assertions as enabled.  A failed assertion ends compile(): status holds *)
(* its message, the stages before it have left their results, the stages   *)
(* after it have not run.                                                  *)
(***************************************************************************)
EXTENDS Integers, Sequences, FiniteSets, TLC

VARIABLES
    graph,                    \* graph_topology: passes, setup_funcs, execute_funcs
    meta_table,               \* resource_meta_table, by kind
    read_deps,                \* image_read_deps / buffer_read_deps, by kind
    write_deps,               \* image_write_deps / buffer_write_deps, by kind
    ver_read_handles,         \* img_ver_read_handles / buf_ver_read_handles
    ver_write_handles,        \* img_ver_write_handles / buf_ver_write_handles
    producer_lookup_table,    \* version_producer_map, by kind
    output_table,             \* image_outputs / buffer_outputs, by kind
    active_pass_flags,
    dag,                      \* directed_acyclic_graph
    sorted_passes,
    resource_lifetimes,       \* first/last used, by kind
    physical_resource_metas,  \* representative + handle_to_physical, by kind
    per_pass_barriers,        \* per_pass_barrier: CSR ranges + one array per op field
    status,                   \* "idle", "compiled", "injected", or the assertion that aborted compile()
    cycle_check,              \* outcome of the last assert_no_cycles call, "none" before any
    compile_calls,            \* compile() calls made so far
    backend,                  \* the backend pointer: "null" or "set"
    backend_calls,            \* calls the system has made on the backend and on execute callbacks
    execute_calls,            \* execute() calls made so far
    codec                     \* a host's use of pack / unpack_to_*: arguments and results

vars == <<graph, meta_table, read_deps, write_deps, ver_read_handles,
          ver_write_handles, producer_lookup_table, output_table,
          active_pass_flags, dag, sorted_passes, resource_lifetimes,
          physical_resource_metas, per_pass_barriers, status, cycle_check,
          compile_calls, backend, backend_calls, execute_calls, codec>>

-----------------------------------------------------------------------------
(* Bounds of the model. *)

\* Passes a graph may hold.
MaxPasses == 3

\* Passes a graph may hold under SpecValid, whose callbacks are more varied.
MaxValidationPasses == 2

\* A handle no meta table of the model is large enough to hold.
OutOfRangeHandle == 1000

\* Passes of the DAG arrays a host may write into the system.
MaxCyclePasses == 3

\* compile() calls on one system under SpecTwice.
MaxCompiles == 2

\* execute() calls on one system under SpecExec.
MaxExecutes == 2

\* Passes a graph may hold under SpecLifetime.
MaxLifetimePasses == 5

-----------------------------------------------------------------------------
(* Words, handles and the packed versioned handle (resource.h). *)

WordBits == 15

WordRadix == 2 ^ WordBits

\* std::numeric_limits<uint32_t>::max(): the all-ones word.
invalid_pass == WordRadix - 1

invalid_resource == WordRadix - 1

\* 0xFFFFFFFFFFFFFFFF: the all-ones double word.
invalid_resource_version == WordRadix * WordRadix - 1

\* pack with the index in the high word and the version in the low word.
pack_IndexHigh(index, version) == (index * WordRadix) + version

pack(index, version) == (version * WordRadix) + index

unpack_to_resource(handle) == handle % WordRadix

unpack_to_version(handle) == (handle \div WordRadix) % WordRadix

Kinds == {"image", "buffer"}

At(s, i) == s[i + 1]

SetAt(s, i, v) == [s EXCEPT ![i + 1] = v]

Fill(n, v) == [i \in 1..n |-> v]

Max(a, b) == IF a >= b THEN a ELSE b

Min(a, b) == IF a <= b THEN a ELSE b

-----------------------------------------------------------------------------
(* Enum values of resource_types.h. *)

R8G8B8A8_UNORM == 1
R8G8B8A8_SRGB == 2
TYPE_2D == 1
TYPE_3D == 2
CUBE_COMPATIBLE == 1
IMAGE_TRANSFER_SRC == 1
IMAGE_TRANSFER_DST == 2
IMAGE_SAMPLED == 4
IMAGE_STORAGE == 8
IMAGE_COLOR_ATTACHMENT == 16
BUFFER_UNIFORM_BUFFER == 4
BUFFER_STORAGE_BUFFER == 8

-----------------------------------------------------------------------------
(* Meta tables (resource.h): one column per std::vector of the SoA struct. *)

EmptyImageMeta ==
    [names |-> <<>>, formats |-> <<>>, extents |-> <<>>, usages |-> <<>>,
     types |-> <<>>, flags |-> <<>>, mip_levels |-> <<>>, array_layers |-> <<>>,
     sample_counts |-> <<>>, is_imported |-> <<>>, is_transient |-> <<>>]

EmptyBufferMeta ==
    [names |-> <<>>, sizes |-> <<>>, usages |-> <<>>,
     is_imported |-> <<>>, is_transient |-> <<>>]

EmptyMetaTable == [image |-> EmptyImageMeta, buffer |-> EmptyBufferMeta]

image_meta_add(m, info) ==
    [names         |-> Append(m.names, info.name),
     formats       |-> Append(m.formats, info.fmt),
     extents       |-> Append(m.extents, info.extent),
     usages        |-> Append(m.usages, info.usage),
     types         |-> Append(m.types, info.type),
     flags         |-> Append(m.flags, info.flags),
     mip_levels    |-> Append(m.mip_levels, info.mip_levels),
     array_layers  |-> Append(m.array_layers, info.array_layers),
     sample_counts |-> Append(m.sample_counts, info.sample_counts),
     is_imported   |-> Append(m.is_imported, info.imported),
     is_transient  |-> Append(m.is_transient, ~info.imported)]

buffer_meta_add(m, info) ==
    [names        |-> Append(m.names, info.name),
     sizes        |-> Append(m.sizes, info.size),
     usages       |-> Append(m.usages, info.usage),
     is_imported  |-> Append(m.is_imported, info.imported),
     is_transient |-> Append(m.is_transient, ~info.imported)]

\* image_meta::clear(): every column is cleared.
image_meta_clear(m) ==
    [names |-> <<>>, formats |-> <<>>, extents |-> <<>>, usages |-> <<>>,
     types |-> <<>>, flags |-> <<>>, mip_levels |-> <<>>, array_layers |-> <<>>,
     sample_counts |-> <<>>, is_imported |-> <<>>, is_transient |-> <<>>]

\* buffer_meta::clear(): names, sizes and usages are cleared; is_imported and
\* is_transient are not mentioned and keep their elements.
buffer_meta_clear(m) ==
    [m EXCEPT !.names = <<>>, !.sizes = <<>>, !.usages = <<>>]

meta_add(kind, m, info) ==
    IF kind = "image" THEN image_meta_add(m, info) ELSE buffer_meta_add(m, info)

\* names.size(): what compile() and is_compatible() take as the resource count.
ResourceCount(meta, kind) == Len(meta[kind].names)

\* image_is_compatible that leaves the sample counts out of the comparison.
image_is_compatible_NoSamples(m, a, b) ==
    IF a >= Len(m.names) \/ b >= Len(m.names)
    THEN FALSE
    ELSE /\ At(m.formats, a) = At(m.formats, b)
         /\ At(m.extents, a).width = At(m.extents, b).width
         /\ At(m.extents, a).height = At(m.extents, b).height
         /\ At(m.extents, a).depth = At(m.extents, b).depth
         /\ At(m.usages, a) = At(m.usages, b)
         /\ At(m.types, a) = At(m.types, b)
         /\ At(m.flags, a) = At(m.flags, b)
         /\ At(m.mip_levels, a) = At(m.mip_levels, b)
         /\ At(m.array_layers, a) = At(m.array_layers, b)

image_is_compatible(m, a, b) ==
    IF a >= Len(m.names) \/ b >= Len(m.names)
    THEN FALSE
    ELSE /\ At(m.formats, a) = At(m.formats, b)
         /\ At(m.extents, a).width = At(m.extents, b).width
         /\ At(m.extents, a).height = At(m.extents, b).height
         /\ At(m.extents, a).depth = At(m.extents, b).depth
         /\ At(m.usages, a) = At(m.usages, b)
         /\ At(m.types, a) = At(m.types, b)
         /\ At(m.flags, a) = At(m.flags, b)
         /\ At(m.mip_levels, a) = At(m.mip_levels, b)
         /\ At(m.array_layers, a) = At(m.array_layers, b)
         /\ At(m.sample_counts, a) = At(m.sample_counts, b)

buffer_is_compatible(m, a, b) ==
    IF a >= Len(m.names) \/ b >= Len(m.names)
    THEN FALSE
    ELSE /\ At(m.sizes, a) = At(m.sizes, b)
         /\ At(m.usages, a) = At(m.usages, b)

is_compatible(meta, kind, a, b) ==
    IF kind = "image"
    THEN image_is_compatible(meta.image, a, b)
    ELSE buffer_is_compatible(meta.buffer, a, b)

-----------------------------------------------------------------------------
(* Step A of compile(): reset of the dependency storage, then the setup    *)
(* callbacks.  A setup callback is the sequence of calls it makes on the   *)
(* pass_setup_context (graph.h).                                           *)

EmptyReadDeps(n) ==
    [read_list |-> <<>>, usage_bits |-> <<>>, begins |-> Fill(n, 0), lengthes |-> Fill(n, 0)]

EmptyWriteDeps(n) ==
    [write_list |-> <<>>, usage_bits |-> <<>>, begins |-> Fill(n, 0), lengthes |-> Fill(n, 0)]

ResetSetup(meta, n) ==
    [meta   |-> meta,
     rd     |-> [k \in Kinds |-> EmptyReadDeps(n)],
     wd     |-> [k \in Kinds |-> EmptyWriteDeps(n)],
     out    |-> [k \in Kinds |-> <<>>],
     ret    |-> [k \in Kinds |-> 0],
     failed |-> "none"]

\* A handle argument of a call: a literal, or the callback's local variable
\* holding what its latest create_image / create_buffer returned.
Lit(h) == [local |-> FALSE, value |-> h]

Ret == [local |-> TRUE, value |-> 0]

Operand(S, c) == IF c.res.local THEN S.ret[c.kind] ELSE c.res.value

\* create_image / create_buffer: add() returns the old size of names.
create_resource(S, c) ==
    [S EXCEPT !.meta[c.kind] = meta_add(c.kind, @, c.info),
              !.ret[c.kind] = ResourceCount(S.meta, c.kind)]

declare_output(S, c) ==
    IF Operand(S, c) < ResourceCount(S.meta, c.kind)
    THEN [S EXCEPT !.out[c.kind] = Append(@, Operand(S, c))]
    ELSE [S EXCEPT !.failed = "declare_output: resource out of range"]

read_resource(S, pass, c) ==
    [S EXCEPT !.rd[c.kind] =
        [@ EXCEPT !.read_list = Append(@, Operand(S, c)),
                  !.usage_bits = Append(@, c.usage),
                  !.lengthes = SetAt(@, pass, At(@, pass) + 1)]]

write_resource(S, pass, c) ==
    [S EXCEPT !.wd[c.kind] =
        [@ EXCEPT !.write_list = Append(@, Operand(S, c)),
                  !.usage_bits = Append(@, c.usage),
                  !.lengthes = SetAt(@, pass, At(@, pass) + 1)]]

SetupCall(S, pass, c) ==
    CASE c.op = "create"  -> create_resource(S, c)
      [] c.op = "read"    -> read_resource(S, pass, c)
      [] c.op = "write"   -> write_resource(S, pass, c)
      [] c.op = "declare" -> declare_output(S, c)

\* setup_func(setup_ctx): the calls of one callback, in order; a failed
\* assertion ends the run.
RECURSIVE RunSetupFunc(_, _, _, _)
RunSetupFunc(S, pass, calls, j) ==
    IF j > Len(calls) \/ S.failed # "none"
    THEN S
    ELSE RunSetupFunc(SetupCall(S, pass, calls[j]), pass, calls, j + 1)

\* MarkBegins that marks the begin offsets of the read lists only.
MarkBegins_ReadsOnly(S, pass) ==
    [S EXCEPT !.rd = [k \in Kinds |->
                        [S.rd[k] EXCEPT !.begins = SetAt(@, pass, Len(S.rd[k].read_list))]]]

MarkBegins(S, pass) ==
    [S EXCEPT !.rd = [k \in Kinds |->
                        [S.rd[k] EXCEPT !.begins = SetAt(@, pass, Len(S.rd[k].read_list))]],
              !.wd = [k \in Kinds |->
                        [S.wd[k] EXCEPT !.begins = SetAt(@, pass, Len(S.wd[k].write_list))]]]

RECURSIVE SetupLoop(_, _, _)
SetupLoop(S, g, i) ==
    IF i >= Len(g.passes) \/ S.failed # "none"
    THEN S
    ELSE SetupLoop(RunSetupFunc(MarkBegins(S, At(g.passes, i)), At(g.passes, i),
                                At(g.setup_funcs, i), 1),
                   g, i + 1)

StepA(g, meta) == SetupLoop(ResetSetup(meta, Len(g.passes)), g, 0)

-----------------------------------------------------------------------------
(* Step B of compile(): versions.  The two kinds use separate counters and *)
(* lists, so each kind is versioned on its own, passes in declaration      *)
(* order, a pass's reads before its writes.                                *)

VersionRead_NextVersion(V, rd, j) ==
    LET res          == At(rd.read_list, j)
        next_version == IF res < Len(V.next) THEN At(V.next, res) ELSE 0
    IN  IF next_version = 0
        THEN [V EXCEPT !.vr = SetAt(@, j, invalid_resource_version)]
        ELSE [V EXCEPT !.vr = SetAt(@, j, pack(res, next_version))]

VersionRead(V, rd, j) ==
    LET res          == At(rd.read_list, j)
        next_version == IF res < Len(V.next) THEN At(V.next, res) ELSE 0
    IN  IF next_version = 0
        THEN [V EXCEPT !.vr = SetAt(@, j, invalid_resource_version)]
        ELSE [V EXCEPT !.vr = SetAt(@, j, pack(res, next_version - 1))]

VersionWrite_OncePerPass(V, wd, count, j) ==
    LET res == At(wd.write_list, j)
    IN  IF res >= count
        THEN [V EXCEPT !.vw = SetAt(@, j, invalid_resource_version)]
        ELSE IF j > 0 /\ At(wd.write_list, j - 1) = res
             THEN [V EXCEPT !.vw = SetAt(@, j, At(@, j - 1))]
             ELSE [V EXCEPT !.vw = SetAt(@, j, pack(res, At(V.next, res))),
                            !.next = SetAt(@, res, At(@, res) + 1)]

VersionWrite(V, wd, count, j) ==
    LET res == At(wd.write_list, j)
    IN  IF res >= count
        THEN [V EXCEPT !.vw = SetAt(@, j, invalid_resource_version)]
        ELSE [V EXCEPT !.vw = SetAt(@, j, pack(res, At(V.next, res))),
                       !.next = SetAt(@, res, At(@, res) + 1)]

RECURSIVE VersionReads(_, _, _, _)
VersionReads(V, rd, j, end) ==
    IF j >= end THEN V ELSE VersionReads(VersionRead(V, rd, j), rd, j + 1, end)

RECURSIVE VersionWrites(_, _, _, _, _)
VersionWrites(V, wd, count, j, end) ==
    IF j >= end THEN V
    ELSE VersionWrites(VersionWrite(V, wd, count, j), wd, count, j + 1, end)

\* VersionPass that versions the writes of the pass before its reads.
VersionPass_WritesFirst(V, rd, wd, count, pass) ==
    LET rb == At(rd.begins, pass)
        wb == At(wd.begins, pass)
        W  == VersionWrites(V, wd, count, wb, wb + At(wd.lengthes, pass))
    IN  VersionReads(W, rd, rb, rb + At(rd.lengthes, pass))

VersionPass(V, rd, wd, count, pass) ==
    LET rb == At(rd.begins, pass)
        wb == At(wd.begins, pass)
        R  == VersionReads(V, rd, rb, rb + At(rd.lengthes, pass))
    IN  VersionWrites(R, wd, count, wb, wb + At(wd.lengthes, pass))

\* VersionLoop that walks the passes from the last declared to the first.
RECURSIVE VersionLoop_LastFirst(_, _, _, _, _, _)
VersionLoop_LastFirst(V, g, rd, wd, count, i) ==
    IF i >= Len(g.passes) THEN V
    ELSE VersionLoop_LastFirst(
             VersionPass(V, rd, wd, count, At(g.passes, Len(g.passes) - 1 - i)),
             g, rd, wd, count, i + 1)

RECURSIVE VersionLoop(_, _, _, _, _, _)
VersionLoop(V, g, rd, wd, count, i) ==
    IF i >= Len(g.passes) THEN V
    ELSE VersionLoop(VersionPass(V, rd, wd, count, At(g.passes, i)), g, rd, wd, count, i + 1)

\* [vr, vw, next]: *_ver_read_handles, *_ver_write_handles, *_next_versions.
StepB(g, rd, wd, count) ==
    VersionLoop([vr   |-> Fill(Len(rd.read_list), 0),
                 vw   |-> Fill(Len(wd.write_list), 0),
                 next |-> Fill(count, 0)],
                g, rd, wd, count, 0)

-----------------------------------------------------------------------------
(* Step C of compile(): the version -> producer table of one kind.         *)

RECURSIVE VersionOffsets(_, _)
\* offsets[0..count]: running sums of the version counts.
VersionOffsets(next, h) ==
    IF h = 0 THEN <<0>>
    ELSE LET prev == VersionOffsets(next, h - 1)
         IN  Append(prev, At(prev, h - 1) + At(next, h - 1))

LatestVersions_NextVersion(next) ==
    [i \in 1..Len(next) |->
        IF next[i] > 0 THEN pack(i - 1, next[i]) ELSE invalid_resource_version]

LatestVersions(next) ==
    [i \in 1..Len(next) |->
        IF next[i] > 0 THEN pack(i - 1, next[i] - 1) ELSE invalid_resource_version]

FillProducer_FirstVersion(producers, offsets, count, vh, pass) ==
    LET res == unpack_to_resource(vh)
    IN  IF res >= count
        THEN producers
        ELSE IF At(offsets, res) < At(offsets, res + 1)
             THEN SetAt(producers, At(offsets, res), pass)
             ELSE producers

FillProducer(producers, offsets, count, vh, pass) ==
    LET res     == unpack_to_resource(vh)
        version == unpack_to_version(vh)
    IN  IF res >= count
        THEN producers
        ELSE LET idx == At(offsets, res) + version
             IN  IF idx < At(offsets, res + 1)
                 THEN SetAt(producers, idx, pass)
                 ELSE producers

RECURSIVE FillProducersOfPass(_, _, _, _, _, _, _)
FillProducersOfPass(producers, offsets, count, vw, pass, j, end) ==
    IF j >= end THEN producers
    ELSE FillProducersOfPass(FillProducer(producers, offsets, count, At(vw, j), pass),
                             offsets, count, vw, pass, j + 1, end)

RECURSIVE FillProducers(_, _, _, _, _, _, _)
FillProducers(producers, offsets, count, g, wd, vw, i) ==
    IF i >= Len(g.passes) THEN producers
    ELSE LET pass  == At(g.passes, i)
             begin == At(wd.begins, pass)
         IN  FillProducers(
                 FillProducersOfPass(producers, offsets, count, vw, pass,
                                     begin, begin + At(wd.lengthes, pass)),
                 offsets, count, g, wd, vw, i + 1)

StepC(g, wd, vw, next, count) ==
    LET offsets == VersionOffsets(next, count)
    IN  [version_offsets   |-> offsets,
         latest            |-> LatestVersions(next),
         version_producers |-> FillProducers(Fill(At(offsets, count), invalid_pass),
                                             offsets, count, g, wd, vw, 0)]

\* get_image_producer / get_buffer_producer.
get_producer(plt, count, version) ==
    IF version = invalid_resource_version
    THEN invalid_pass
    ELSE LET res == unpack_to_resource(version)
             ver == unpack_to_version(version)
         IN  IF res >= count
             THEN invalid_pass
             ELSE LET idx == At(plt.version_offsets, res) + ver
                  IN  IF idx >= At(plt.version_offsets, res + 1)
                      THEN invalid_pass
                      ELSE At(plt.version_producers, idx)

-----------------------------------------------------------------------------
(* Step D of compile(): culling.  W = [flags, queue, pushes]: the liveness *)
(* flags, the worklist, and how many pushes the worklist has seen.         *)

\* enqueue_pass without the test of the liveness flag.
enqueue_pass_Unguarded(W, pass, pass_count) ==
    IF pass = invalid_pass \/ pass >= pass_count
    THEN W
    ELSE [flags  |-> SetAt(W.flags, pass, TRUE),
          queue  |-> Append(W.queue, pass),
          pushes |-> W.pushes + 1]

enqueue_pass(W, pass, pass_count) ==
    IF pass = invalid_pass \/ pass >= pass_count
    THEN W
    ELSE IF ~At(W.flags, pass)
         THEN [flags  |-> SetAt(W.flags, pass, TRUE),
               queue  |-> Append(W.queue, pass),
               pushes |-> W.pushes + 1]
         ELSE W

\* enqueue_image_producer / enqueue_buffer_producer.
enqueue_producer(W, plt, count, version, pass_count) ==
    IF version = invalid_resource_version
    THEN W
    ELSE LET res == unpack_to_resource(version)
             ver == unpack_to_version(version)
         IN  IF res >= count
             THEN W
             ELSE LET idx == At(plt.version_offsets, res) + ver
                  IN  IF idx >= At(plt.version_offsets, res + 1)
                      THEN W
                      ELSE enqueue_pass(W, At(plt.version_producers, idx), pass_count)

RECURSIVE SeedOutputs_FirstVersion(_, _, _, _, _, _)
SeedOutputs_FirstVersion(W, outs, plt, count, pass_count, i) ==
    IF i > Len(outs) THEN W
    ELSE SeedOutputs_FirstVersion(
             IF outs[i] < count
             THEN enqueue_producer(W, plt, count, pack(outs[i], 0), pass_count)
             ELSE W,
             outs, plt, count, pass_count, i + 1)

RECURSIVE SeedOutputs(_, _, _, _, _, _)
SeedOutputs(W, outs, plt, count, pass_count, i) ==
    IF i > Len(outs) THEN W
    ELSE SeedOutputs(
             IF outs[i] < count
             THEN enqueue_producer(W, plt, count, At(plt.latest, outs[i]), pass_count)
             ELSE W,
             outs, plt, count, pass_count, i + 1)

RECURSIVE EnqueueReads(_, _, _, _, _, _, _)
EnqueueReads(W, vr, plt, count, pass_count, j, end) ==
    IF j >= end THEN W
    ELSE EnqueueReads(enqueue_producer(W, plt, count, At(vr, j), pass_count),
                      vr, plt, count, pass_count, j + 1, end)

\* CullPop walking the image reads of the popped pass only.
CullPop_ImageReadsOnly(W, rd, vr, plt, counts, pass_count) ==
    LET current_pass == Head(W.queue)
        W0 == [W EXCEPT !.queue = Tail(@)]
        ib == At(rd.image.begins, current_pass)
    IN  EnqueueReads(W0, vr.image, plt.image, counts.image, pass_count,
                     ib, ib + At(rd.image.lengthes, current_pass))

CullPop(W, rd, vr, plt, counts, pass_count) ==
    LET current_pass == Head(W.queue)
        W0 == [W EXCEPT !.queue = Tail(@)]
        ib == At(rd.image.begins, current_pass)
        W1 == EnqueueReads(W0, vr.image, plt.image, counts.image, pass_count,
                           ib, ib + At(rd.image.lengthes, current_pass))
        bb == At(rd.buffer.begins, current_pass)
    IN  EnqueueReads(W1, vr.buffer, plt.buffer, counts.buffer, pass_count,
                     bb, bb + At(rd.buffer.lengthes, current_pass))

RECURSIVE CullLoop(_, _, _, _, _, _)
CullLoop(W, rd, vr, plt, counts, pass_count) ==
    IF W.queue = <<>> THEN W
    ELSE CullLoop(CullPop(W, rd, vr, plt, counts, pass_count),
                  rd, vr, plt, counts, pass_count)

StepD(rd, vr, plt, out, counts, pass_count) ==
    LET W0 == [flags |-> Fill(pass_count, FALSE), queue |-> <<>>, pushes |-> 0]
        W1 == SeedOutputs(W0, out.image, plt.image, counts.image, pass_count, 1)
        W2 == SeedOutputs(W1, out.buffer, plt.buffer, counts.buffer, pass_count, 1)
    IN  CullLoop(W2, rd, vr, plt, counts, pass_count)

-----------------------------------------------------------------------------
(* Step E of compile(): validation.  Each operator gives "ok" or the       *)
(* message of the first assertion that fails, in the order the code        *)
(* evaluates them.                                                         *)

\* ValidateRead that lets a read without any earlier write pass for every
\* resource, imported or not.
ValidateRead_SentinelLegal(kind, meta, rd, vr, plt, count, j) ==
    LET handle == At(rd.read_list, j)
    IN  IF handle >= count
        THEN IF kind = "image" THEN "Error: Image read out-of-range detected!"
                               ELSE "Error: Buffer read out-of-range detected!"
        ELSE LET version_handle == At(vr, j)
                 is_imported    == At(meta[kind].is_imported, handle)
                 producer       == get_producer(plt, count, version_handle)
                 legal          == IF version_handle = invalid_resource_version
                                   THEN TRUE
                                   ELSE is_imported \/ producer # invalid_pass
             IN  IF legal THEN "ok"
                 ELSE IF kind = "image" THEN "Error: Image read-before-write detected!"
                                        ELSE "Error: Buffer read-before-write detected!"

ValidateRead(kind, meta, rd, vr, plt, count, j) ==
    LET handle == At(rd.read_list, j)
    IN  IF handle >= count
        THEN IF kind = "image" THEN "Error: Image read out-of-range detected!"
                               ELSE "Error: Buffer read out-of-range detected!"
        ELSE LET version_handle == At(vr, j)
                 is_imported    == At(meta[kind].is_imported, handle)
                 producer       == get_producer(plt, count, version_handle)
                 legal          == IF version_handle = invalid_resource_version
                                   THEN is_imported
                                   ELSE is_imported \/ producer # invalid_pass
             IN  IF legal THEN "ok"
                 ELSE IF kind = "image" THEN "Error: Image read-before-write detected!"
                                        ELSE "Error: Buffer read-before-write detected!"

ValidateWrite(kind, wd, vw, count, j) ==
    IF At(wd.write_list, j) < count /\ At(vw, j) # invalid_resource_version
    THEN "ok"
    ELSE IF kind = "image" THEN "Error: Image write out-of-range detected!"
                           ELSE "Error: Buffer write out-of-range detected!"

RECURSIVE ValidateReads(_, _, _, _, _, _, _, _)
ValidateReads(kind, meta, rd, vr, plt, count, j, end) ==
    IF j >= end THEN "ok"
    ELSE LET r == ValidateRead(kind, meta, rd, vr, plt, count, j)
         IN  IF r # "ok" THEN r
             ELSE ValidateReads(kind, meta, rd, vr, plt, count, j + 1, end)

RECURSIVE ValidateWrites(_, _, _, _, _, _)
ValidateWrites(kind, wd, vw, count, j, end) ==
    IF j >= end THEN "ok"
    ELSE LET r == ValidateWrite(kind, wd, vw, count, j)
         IN  IF r # "ok" THEN r
             ELSE ValidateWrites(kind, wd, vw, count, j + 1, end)

\* ValidatePass that checks the read records of the pass and not its writes.
ValidatePass_ReadsOnly(meta, rd, wd, vr, vw, plt, counts, pass) ==
    LET RangeOf(d) == <<At(d.begins, pass), At(d.begins, pass) + At(d.lengthes, pass)>>
        ir == ValidateReads("image", meta, rd.image, vr.image, plt.image, counts.image,
                            RangeOf(rd.image)[1], RangeOf(rd.image)[2])
        br == ValidateReads("buffer", meta, rd.buffer, vr.buffer, plt.buffer, counts.buffer,
                            RangeOf(rd.buffer)[1], RangeOf(rd.buffer)[2])
    IN  IF ir # "ok" THEN ir ELSE br

ValidatePass(meta, rd, wd, vr, vw, plt, counts, pass) ==
    LET RangeOf(d) == <<At(d.begins, pass), At(d.begins, pass) + At(d.lengthes, pass)>>
        ir == ValidateReads("image", meta, rd.image, vr.image, plt.image, counts.image,
                            RangeOf(rd.image)[1], RangeOf(rd.image)[2])
        br == ValidateReads("buffer", meta, rd.buffer, vr.buffer, plt.buffer, counts.buffer,
                            RangeOf(rd.buffer)[1], RangeOf(rd.buffer)[2])
        iw == ValidateWrites("image", wd.image, vw.image, counts.image,
                             RangeOf(wd.image)[1], RangeOf(wd.image)[2])
        bw == ValidateWrites("buffer", wd.buffer, vw.buffer, counts.buffer,
                             RangeOf(wd.buffer)[1], RangeOf(wd.buffer)[2])
    IN  IF ir # "ok" THEN ir
        ELSE IF br # "ok" THEN br
        ELSE IF iw # "ok" THEN iw
        ELSE bw

RECURSIVE ValidateLoop_AllPasses(_, _, _, _, _, _, _, _, _, _)
\* ValidateLoop without the guard that skips culled passes.
ValidateLoop_AllPasses(g, flags, meta, rd, wd, vr, vw, plt, counts, i) ==
    IF i >= Len(g.passes) THEN "ok"
    ELSE LET r == ValidatePass(meta, rd, wd, vr, vw, plt, counts, At(g.passes, i))
         IN  IF r # "ok" THEN r
             ELSE ValidateLoop_AllPasses(g, flags, meta, rd, wd, vr, vw, plt, counts, i + 1)

RECURSIVE ValidateLoop(_, _, _, _, _, _, _, _, _, _)
ValidateLoop(g, flags, meta, rd, wd, vr, vw, plt, counts, i) ==
    IF i >= Len(g.passes) THEN "ok"
    ELSE IF ~At(flags, i)
         THEN ValidateLoop(g, flags, meta, rd, wd, vr, vw, plt, counts, i + 1)
         ELSE LET r == ValidatePass(meta, rd, wd, vr, vw, plt, counts, At(g.passes, i))
              IN  IF r # "ok" THEN r
                  ELSE ValidateLoop(g, flags, meta, rd, wd, vr, vw, plt, counts, i + 1)

\* CheckOutputs that lets an empty output table pass.
CheckOutputs_Skipped(out) == "ok"

CheckOutputs(out) ==
    IF out.image # <<>> \/ out.buffer # <<>> THEN "ok" ELSE "Error: No outputs declared"

StepE(g, flags, meta, rd, wd, vr, vw, plt, out, counts) ==
    IF CheckOutputs(out) # "ok"
    THEN CheckOutputs(out)
    ELSE ValidateLoop(g, flags, meta, rd, wd, vr, vw, plt, counts, 0)

-----------------------------------------------------------------------------
(* Step F of compile(): the DAG.                                           *)

\* add_edge with the edge stored at the consumer: the arrow reversed.
add_edge_Reversed(outgoing, from, to, flags, pass_count) ==
    IF from = invalid_pass \/ to = invalid_pass THEN outgoing
    ELSE IF from >= pass_count \/ to >= pass_count THEN outgoing
    ELSE IF from = to THEN outgoing
    ELSE IF ~At(flags, from) \/ ~At(flags, to) THEN outgoing
    ELSE SetAt(outgoing, to, Append(At(outgoing, to), from))

add_edge(outgoing, from, to, flags, pass_count) ==
    IF from = invalid_pass \/ to = invalid_pass THEN outgoing
    ELSE IF from >= pass_count \/ to >= pass_count THEN outgoing
    ELSE IF from = to THEN outgoing
    ELSE IF ~At(flags, from) \/ ~At(flags, to) THEN outgoing
    ELSE SetAt(outgoing, from, Append(At(outgoing, from), to))

RECURSIVE AddReadEdges(_, _, _, _, _, _, _, _, _)
AddReadEdges(outgoing, vr, plt, count, consumer, flags, pass_count, j, end) ==
    IF j >= end THEN outgoing
    ELSE AddReadEdges(
             add_edge(outgoing, get_producer(plt, count, At(vr, j)), consumer,
                      flags, pass_count),
             vr, plt, count, consumer, flags, pass_count, j + 1, end)

RECURSIVE CollectEdges(_, _, _, _, _, _, _, _)
CollectEdges(outgoing, g, flags, rd, vr, plt, counts, i) ==
    IF i >= Len(g.passes) THEN outgoing
    ELSE LET consumer == At(g.passes, i)
         IN  IF ~At(flags, consumer)
             THEN CollectEdges(outgoing, g, flags, rd, vr, plt, counts, i + 1)
             ELSE LET ib == At(rd.image.begins, consumer)
                      O1 == AddReadEdges(outgoing, vr.image, plt.image, counts.image,
                                         consumer, flags, Len(g.passes),
                                         ib, ib + At(rd.image.lengthes, consumer))
                      bb == At(rd.buffer.begins, consumer)
                      O2 == AddReadEdges(O1, vr.buffer, plt.buffer, counts.buffer,
                                         consumer, flags, Len(g.passes),
                                         bb, bb + At(rd.buffer.lengthes, consumer))
                  IN  CollectEdges(O2, g, flags, rd, vr, plt, counts, i + 1)

SeqElems(s) == {s[i] : i \in 1..Len(s)}

RECURSIVE SortedSeqOf(_)
\* The members of a finite set of numbers, ascending.
SortedSeqOf(S) ==
    IF S = {} THEN <<>>
    ELSE LET m == CHOOSE x \in S : \A y \in S : x <= y
         IN  <<m>> \o SortedSeqOf(S \ {m})

\* SortUnique that leaves the list as collected: unsorted, duplicates kept.
SortUnique_AsCollected(list) == list

\* std::sort, then erase(std::unique).
SortUnique(list) == SortedSeqOf(SeqElems(list))

RECURSIVE Flatten(_, _)
Flatten(lists, n) ==
    IF n = 0 THEN <<>> ELSE Flatten(lists, n - 1) \o lists[n]

RECURSIVE AdjacencyBegins(_, _)
AdjacencyBegins(lists, n) ==
    IF n = 0 THEN <<0>>
    ELSE LET prev == AdjacencyBegins(lists, n - 1)
         IN  Append(prev, At(prev, n - 1) + Len(lists[n]))

StepF(g, flags, rd, vr, plt, counts) ==
    LET pass_count == Len(g.passes)
        collected  == CollectEdges(Fill(pass_count, <<>>), g, flags, rd, vr, plt, counts, 0)
        outgoing   == [i \in 1..pass_count |-> SortUnique(collected[i])]
    IN  [adjacency_list   |-> Flatten(outgoing, pass_count),
         adjacency_begins |-> AdjacencyBegins(outgoing, pass_count),
         in_degrees       |-> [i \in 1..pass_count |->
                                 Cardinality({e \in (1..pass_count) \X (1..pass_count) :
                                                 /\ e[2] <= Len(outgoing[e[1]])
                                                 /\ outgoing[e[1]][e[2]] = i - 1})],
         out_degrees      |-> [i \in 1..pass_count |-> Len(outgoing[i])]]

-----------------------------------------------------------------------------
(* Step G of compile(): Kahn's algorithm.  Q = [deg, queue, sorted,        *)
(* pushes]: in_degrees_copy, zero_in_degree_queue, sorted_passes, and the  *)
(* number of pushes the queue has seen.                                    *)

RECURSIVE SeedReady(_, _, _, _)
SeedReady(Q, flags, pass, pass_count) ==
    IF pass >= pass_count THEN Q
    ELSE SeedReady(
             IF At(flags, pass) /\ At(Q.deg, pass) = 0
             THEN [Q EXCEPT !.queue = Append(@, pass), !.pushes = @ + 1]
             ELSE Q,
             flags, pass + 1, pass_count)

\* RelaxEdge pushing the pass being popped in place of the successor.
RelaxEdge_PushCurrent(Q, dst_pass) ==
    LET d == At(Q.deg, dst_pass) - 1
    IN  IF d = 0
        THEN [Q EXCEPT !.deg = SetAt(@, dst_pass, d),
                       !.queue = Append(@, Q.sorted[Len(Q.sorted)]),
                       !.pushes = @ + 1]
        ELSE [Q EXCEPT !.deg = SetAt(@, dst_pass, d)]

RelaxEdge(Q, dst_pass) ==
    LET d == At(Q.deg, dst_pass) - 1
    IN  IF d = 0
        THEN [Q EXCEPT !.deg = SetAt(@, dst_pass, d),
                       !.queue = Append(@, dst_pass),
                       !.pushes = @ + 1]
        ELSE [Q EXCEPT !.deg = SetAt(@, dst_pass, d)]

RECURSIVE RelaxEdges(_, _, _, _)
RelaxEdges(Q, d, j, end) ==
    IF j >= end THEN Q
    ELSE RelaxEdges(RelaxEdge(Q, At(d.adjacency_list, j)), d, j + 1, end)

KahnPop(Q, d) ==
    LET current_pass == Head(Q.queue)
        Q0 == [Q EXCEPT !.queue = Tail(@), !.sorted = Append(@, current_pass)]
    IN  RelaxEdges(Q0, d, At(d.adjacency_begins, current_pass),
                   At(d.adjacency_begins, current_pass + 1))

RECURSIVE KahnLoop(_, _)
KahnLoop(Q, d) ==
    IF Q.queue = <<>> THEN Q ELSE KahnLoop(KahnPop(Q, d), d)

ActivePassCount(flags) == Cardinality({i \in 1..Len(flags) : flags[i]})

StepG(d, flags) ==
    KahnLoop(SeedReady([deg |-> d.in_degrees, queue |-> <<>>, sorted |-> <<>>, pushes |-> 0],
                       flags, 0, Len(flags)),
             d)

CheckCycles(sorted, flags) ==
    IF Len(sorted) = ActivePassCount(flags)
    THEN "ok"
    ELSE "Error: Cycle detected in render graph!"

-----------------------------------------------------------------------------
(* Step H of compile(): lifetimes in schedule indices, then greedy         *)
(* first-fit aliasing, each kind on its own.                               *)

\* SortedPassIndices that gives every pass its own handle as index.
SortedPassIndices_Handles(indices, sorted, i) ==
    [n \in 1..Len(indices) |-> n - 1]

RECURSIVE SortedPassIndices(_, _, _)
SortedPassIndices(indices, sorted, i) ==
    IF i >= Len(sorted) THEN indices
    ELSE SortedPassIndices(SetAt(indices, At(sorted, i), i), sorted, i + 1)

\* update_lifetime that sets last_used at the first use only.
update_lifetime_FirstUseOnly(L, res, count, actual_pass_index) ==
    IF res >= count THEN L
    ELSE IF At(L.first_used, res) = invalid_pass
         THEN [first_used |-> SetAt(L.first_used, res, actual_pass_index),
               last_used  |-> SetAt(L.last_used, res, actual_pass_index)]
         ELSE L

update_lifetime(L, res, count, actual_pass_index) ==
    IF res >= count THEN L
    ELSE [first_used |-> IF At(L.first_used, res) = invalid_pass
                         THEN SetAt(L.first_used, res, actual_pass_index)
                         ELSE L.first_used,
          last_used  |-> SetAt(L.last_used, res, actual_pass_index)]

RECURSIVE UpdateLifetimes(_, _, _, _, _, _)
UpdateLifetimes(L, list, count, index, j, end) ==
    IF j >= end THEN L
    ELSE UpdateLifetimes(update_lifetime(L, At(list, j), count, index),
                         list, count, index, j + 1, end)

LifetimesOfPass(L, rd, wd, count, pass, index) ==
    LET rb == At(rd.begins, pass)
        wb == At(wd.begins, pass)
        R  == UpdateLifetimes(L, rd.read_list, count, index, rb, rb + At(rd.lengthes, pass))
    IN  UpdateLifetimes(R, wd.write_list, count, index, wb, wb + At(wd.lengthes, pass))

RECURSIVE LifetimeLoop(_, _, _, _, _, _, _)
LifetimeLoop(L, sorted, indices, rd, wd, count, i) ==
    IF i > Len(sorted) THEN L
    ELSE LifetimeLoop(LifetimesOfPass(L, rd, wd, count, sorted[i], At(indices, sorted[i])),
                      sorted, indices, rd, wd, count, i + 1)

\* Lifetimes walking every pass in declaration order, culled or not.
Lifetimes_AllPasses(sorted, pass_count, rd, wd, count) ==
    LifetimeLoop([first_used |-> Fill(count, invalid_pass), last_used |-> Fill(count, 0)],
                 [i \in 1..pass_count |-> i - 1], [i \in 1..pass_count |-> i - 1],
                 rd, wd, count, 1)

Lifetimes(sorted, pass_count, rd, wd, count) ==
    LifetimeLoop([first_used |-> Fill(count, invalid_pass), last_used |-> Fill(count, 0)],
                 sorted, SortedPassIndices(Fill(pass_count, 0), sorted, 0),
                 rd, wd, count, 1)

\* is_overlapping with intervals that only touch taken as disjoint.
is_overlapping_Strict(start_a, end_a, start_b, end_b) ==
    Max(start_a, start_b) < Min(end_a, end_b)

is_overlapping(start_a, end_a, start_b, end_b) ==
    Max(start_a, start_b) <= Min(end_a, end_b)

OverlapsAny(intervals, first, last) ==
    \E n \in 1..Len(intervals) :
        is_overlapping(first, last, intervals[n][1], intervals[n][2])

\* SlotFits without the test that keeps imported slots out of the scan.
SlotFits_ImportedToo(P, meta, kind, res, first, last, u) ==
    /\ is_compatible(meta, kind, At(P.representative, u), res)
    /\ ~OverlapsAny(At(P.life_intervals, u), first, last)

\* The slot test of the first-fit scan: not an imported slot, compatible
\* representative, no overlapping interval.
SlotFits(P, meta, kind, res, first, last, u) ==
    /\ At(P.life_intervals, u) # <<>>
    /\ is_compatible(meta, kind, At(P.representative, u), res)
    /\ ~OverlapsAny(At(P.life_intervals, u), first, last)

RECURSIVE FirstFit(_, _, _, _, _, _, _)
\* The first slot that fits, scanning u upwards, or the slot count if none.
FirstFit(P, meta, kind, res, first, last, u) ==
    IF u >= Len(P.life_intervals) THEN u
    ELSE IF SlotFits(P, meta, kind, res, first, last, u) THEN u
    ELSE FirstFit(P, meta, kind, res, first, last, u + 1)

OpenSlot(P, res, intervals) ==
    [representative     |-> Append(P.representative, res),
     handle_to_physical |-> SetAt(P.handle_to_physical, res, Len(P.representative)),
     life_intervals     |-> Append(P.life_intervals, intervals)]

\* AssignResource taking the highest slot that fits in place of the lowest.
AssignResource_LastFit(P, meta, kind, L, res) ==
    LET first == At(L.first_used, res)
        last  == At(L.last_used, res)
        fits  == {u \in 0..(Len(P.life_intervals) - 1) :
                    SlotFits(P, meta, kind, res, first, last, u)}
    IN  IF first = invalid_pass THEN P
        ELSE IF At(meta[kind].is_imported, res) THEN OpenSlot(P, res, <<>>)
        ELSE IF fits # {}
             THEN LET u == CHOOSE x \in fits : \A y \in fits : y <= x
                  IN  [P EXCEPT !.life_intervals =
                                    SetAt(@, u, Append(At(@, u), <<first, last>>)),
                                !.handle_to_physical = SetAt(@, res, u)]
             ELSE OpenSlot(P, res, << <<first, last>> >>)

AssignResource(P, meta, kind, L, res) ==
    LET first == At(L.first_used, res)
        last  == At(L.last_used, res)
    IN  IF first = invalid_pass THEN P
        ELSE IF At(meta[kind].is_imported, res) THEN OpenSlot(P, res, <<>>)
        ELSE LET u == FirstFit(P, meta, kind, res, first, last, 0)
             IN  IF u < Len(P.life_intervals)
                 THEN [P EXCEPT !.life_intervals =
                                    SetAt(@, u, Append(At(@, u), <<first, last>>)),
                                !.handle_to_physical = SetAt(@, res, u)]
                 ELSE OpenSlot(P, res, << <<first, last>> >>)

RECURSIVE AliasLoop(_, _, _, _, _, _)
AliasLoop(P, meta, kind, L, count, res) ==
    IF res >= count THEN P
    ELSE AliasLoop(AssignResource(P, meta, kind, L, res), meta, kind, L, count, res + 1)

\* Aliasing whose mapping table starts filled with slot 0 in place of the
\* sentinel.
Aliasing_ZeroFilled(meta, kind, L, count) ==
    AliasLoop([representative     |-> <<>>,
               handle_to_physical |-> Fill(count, 0),
               life_intervals     |-> <<>>],
              meta, kind, L, count, 0)

Aliasing(meta, kind, L, count) ==
    AliasLoop([representative     |-> <<>>,
               handle_to_physical |-> Fill(count, invalid_resource),
               life_intervals     |-> <<>>],
              meta, kind, L, count, 0)

-----------------------------------------------------------------------------
(* Step I of compile(): the barrier plan.  The scheduled passes are walked *)
(* in order; each pass's records of one kind are merged per logical       *)
(* resource and handed to insert_barrier in the iteration order of a      *)
(* std::unordered_map, which is any order of its keys.                    *)

RECURSIVE BitOr(_, _)
BitOr(a, b) ==
    IF a = 0 THEN b
    ELSE IF b = 0 THEN a
    ELSE (IF a % 2 = 1 \/ b % 2 = 1 THEN 1 ELSE 0) + 2 * BitOr(a \div 2, b \div 2)

RECURSIVE BitAnd(_, _)
BitAnd(a, b) ==
    IF a = 0 \/ b = 0 THEN 0
    ELSE (IF a % 2 = 1 /\ b % 2 = 1 THEN 1 ELSE 0) + 2 * BitAnd(a \div 2, b \div 2)

\* A default-constructed last_use.
EmptyLastUse ==
    [logical |-> 0, usage_bits |-> 0, domain |-> "any", access |-> "read", valid |-> FALSE]

\* A default-constructed barrier_op (barrier.h).
EmptyOp ==
    [type |-> "transition", kind |-> "image", logical |-> 0, physical |-> 0,
     src_domain |-> "any", dst_domain |-> "any",
     src_access |-> "read", dst_access |-> "read",
     src_usage_bits |-> 0, dst_usage_bits |-> 0, prev_logical |-> 0]

\* to_access that lets a write hide the reads.
to_access_WriteWins(has_read, has_write) ==
    IF has_write THEN "write" ELSE "read"

to_access(has_read, has_write) ==
    IF has_read /\ has_write THEN "read_write"
    ELSE IF has_write THEN "write"
    ELSE "read"

needs_uav_like(kind, usage_bits) ==
    IF kind = "image"
    THEN BitAnd(usage_bits, IMAGE_STORAGE) # 0
    ELSE BitAnd(usage_bits, BUFFER_STORAGE_BUFFER) # 0

\* An aliasing branch that fires on every reuse of a slot, the same
\* resource's included.
AliasingOps_AnyReuse(last, kind, logical, physical) ==
    IF last.valid
    THEN <<[EmptyOp EXCEPT !.type = "aliasing", !.kind = kind, !.logical = logical,
                           !.prev_logical = last.logical, !.physical = physical]>>
    ELSE <<>>

\* insert_barrier, the aliasing branch: the ops it pushes.
AliasingOps(last, kind, logical, physical) ==
    IF last.valid /\ last.logical # logical
    THEN <<[EmptyOp EXCEPT !.type = "aliasing", !.kind = kind, !.logical = logical,
                           !.prev_logical = last.logical, !.physical = physical]>>
    ELSE <<>>

\* A transition branch that looks at the usage bits alone.
TransitionOps_UsageOnly(last, kind, logical, physical, desired_access, desired_usage_bits) ==
    IF last.valid /\ last.usage_bits # desired_usage_bits
    THEN <<[EmptyOp EXCEPT !.type = "transition", !.kind = kind, !.logical = logical,
                           !.physical = physical,
                           !.src_domain = last.domain, !.dst_domain = "any",
                           !.src_access = last.access, !.dst_access = desired_access,
                           !.src_usage_bits = last.usage_bits,
                           !.dst_usage_bits = desired_usage_bits]>>
    ELSE <<>>

\* insert_barrier, the transition branch.
TransitionOps(last, kind, logical, physical, desired_access, desired_usage_bits) ==
    IF /\ last.valid
       /\ \/ last.usage_bits # desired_usage_bits
          \/ last.access # desired_access
          \/ last.domain # "any"
    THEN <<[EmptyOp EXCEPT !.type = "transition", !.kind = kind, !.logical = logical,
                           !.physical = physical,
                           !.src_domain = last.domain, !.dst_domain = "any",
                           !.src_access = last.access, !.dst_access = desired_access,
                           !.src_usage_bits = last.usage_bits,
                           !.dst_usage_bits = desired_usage_bits]>>
    ELSE <<>>

\* A UAV branch that fires after reads as well.
UavOps_AfterAnyAccess(last, kind, logical, physical, desired_usage_bits) ==
    IF last.valid /\ needs_uav_like(kind, desired_usage_bits)
    THEN <<[EmptyOp EXCEPT !.type = "uav", !.kind = kind, !.logical = logical,
                           !.physical = physical]>>
    ELSE <<>>

\* insert_barrier, the UAV branch.
UavOps(last, kind, logical, physical, desired_usage_bits) ==
    IF last.valid /\ last.access # "read" /\ needs_uav_like(kind, desired_usage_bits)
    THEN <<[EmptyOp EXCEPT !.type = "uav", !.kind = kind, !.logical = logical,
                           !.physical = physical]>>
    ELSE <<>>

\* insert_barrier pushing the UAV op ahead of the transition op.
insert_barrier_UavFirst(W, pass, kind, logical, physical, desired_access, desired_usage_bits) ==
    IF physical = invalid_resource THEN W
    ELSE IF physical >= Len(W.last[kind]) THEN W
    ELSE LET last == At(W.last[kind], physical)
             ops  == AliasingOps(last, kind, logical, physical)
                     \o UavOps(last, kind, logical, physical, desired_usage_bits)
                     \o TransitionOps(last, kind, logical, physical,
                                      desired_access, desired_usage_bits)
         IN  [scratch |-> SetAt(W.scratch, pass, At(W.scratch, pass) \o ops),
              last    |-> [W.last EXCEPT ![kind] =
                              SetAt(@, physical,
                                    [logical    |-> logical,
                                     usage_bits |-> desired_usage_bits,
                                     domain     |-> "any",
                                     access     |-> desired_access,
                                     valid      |-> TRUE])]]

\* W: [scratch, last], scratch one op list per pass, last one last_use per
\* physical id and kind.
insert_barrier(W, pass, kind, logical, physical, desired_access, desired_usage_bits) ==
    IF physical = invalid_resource THEN W
    ELSE IF physical >= Len(W.last[kind]) THEN W
    ELSE LET last == At(W.last[kind], physical)
             ops  == AliasingOps(last, kind, logical, physical)
                     \o TransitionOps(last, kind, logical, physical,
                                      desired_access, desired_usage_bits)
                     \o UavOps(last, kind, logical, physical, desired_usage_bits)
         IN  [scratch |-> SetAt(W.scratch, pass, At(W.scratch, pass) \o ops),
              last    |-> [W.last EXCEPT ![kind] =
                              SetAt(@, physical,
                                    [logical    |-> logical,
                                     usage_bits |-> desired_usage_bits,
                                     domain     |-> "any",
                                     access     |-> desired_access,
                                     valid      |-> TRUE])]]

RECURSIVE MergeUsage(_, _, _, _, _, _)
\* usage[logical] |= usage_bits[j] over the records j of a range.
MergeUsage(list, bits, logical, acc, j, end) ==
    IF j >= end THEN acc
    ELSE MergeUsage(list, bits, logical,
                    IF At(list, j) = logical THEN BitOr(acc, At(bits, j)) ELSE acc,
                    j + 1, end)

\* The rw and usage maps of one pass and kind: key set, flags, usage.
PassTouches(rd, wd, pass) ==
    LET r_begin == At(rd.begins, pass)
        r_len   == At(rd.lengthes, pass)
        w_begin == At(wd.begins, pass)
        w_len   == At(wd.lengthes, pass)
        reads   == {At(rd.read_list, j) : j \in r_begin..(r_begin + r_len - 1)}
        writes  == {At(wd.write_list, j) : j \in w_begin..(w_begin + w_len - 1)}
    IN  [keys   |-> reads \cup writes,
         access |-> [l \in reads \cup writes |-> to_access(l \in reads, l \in writes)],
         usage  |-> [l \in reads \cup writes |->
                       MergeUsage(wd.write_list, wd.usage_bits, l,
                                  MergeUsage(rd.read_list, rd.usage_bits, l, 0,
                                             r_begin, r_begin + r_len),
                                  w_begin, w_begin + w_len)]]

\* The orders in which an unordered_map may hand out its keys.
IterationOrders(keys) ==
    {s \in [1..Cardinality(keys) -> keys] : \A x \in keys : \E i \in DOMAIN s : s[i] = x}

RECURSIVE InsertInOrder(_, _, _, _, _, _, _)
InsertInOrder(W, pass, kind, T, h2p, order, i) ==
    IF i > Len(order) THEN W
    ELSE LET logical  == order[i]
             physical == IF logical < Len(h2p) THEN At(h2p, logical) ELSE invalid_resource
         IN  InsertInOrder(insert_barrier(W, pass, kind, logical, physical,
                                          T.access[logical], T.usage[logical]),
                           pass, kind, T, h2p, order, i + 1)

\* One pass, one kind: the outcomes over every iteration order.
PassKindWalks(W, pass, kind, rd, wd, h2p) ==
    LET T == PassTouches(rd, wd, pass)
    IN  {InsertInOrder(W, pass, kind, T, h2p, order, 1) : order \in IterationOrders(T.keys)}

\* Images of the pass, then its buffers.
PassWalks(W, pass, rd, wd, physical) ==
    UNION {PassKindWalks(W1, pass, "buffer", rd.buffer, wd.buffer,
                         physical.buffer.handle_to_physical) :
             W1 \in PassKindWalks(W, pass, "image", rd.image, wd.image,
                                  physical.image.handle_to_physical)}

RECURSIVE ScheduleWalks(_, _, _, _, _, _)
ScheduleWalks(Ws, sorted, rd, wd, physical, i) ==
    IF i > Len(sorted) THEN Ws
    ELSE ScheduleWalks(UNION {PassWalks(W, sorted[i], rd, wd, physical) : W \in Ws},
                       sorted, rd, wd, physical, i + 1)

RECURSIVE BarrierBegins_SkipEmpty(_, _)
\* pass_begins that drops the entry of a pass without ops.
BarrierBegins_SkipEmpty(scratch, n) ==
    IF n = 0 THEN <<0>>
    ELSE LET prev == BarrierBegins_SkipEmpty(scratch, n - 1)
         IN  IF scratch[n] = <<>> THEN prev
             ELSE Append(prev, At(prev, Len(prev) - 1) + Len(scratch[n]))

RECURSIVE BarrierBegins(_, _)
\* pass_begins[0..pass_count]: running sums of the scratch sizes.
BarrierBegins(scratch, n) ==
    IF n = 0 THEN <<0>>
    ELSE LET prev == BarrierBegins(scratch, n - 1)
         IN  Append(prev, At(prev, n - 1) + Len(scratch[n]))

RECURSIVE FlattenOps(_, _)
\* The ops of scratch[0], scratch[1], ... one after the other.
FlattenOps(scratch, n) ==
    IF n = 0 THEN <<>> ELSE FlattenOps(scratch, n - 1) \o scratch[n]

\* A flatten that lays the passes out by descending handle.
FlattenScratch_Descending(scratch, pass_count) ==
    LET rev == [i \in 1..pass_count |-> scratch[pass_count + 1 - i]]
        ops == FlattenOps(rev, pass_count)
        rb  == BarrierBegins(rev, pass_count)
    IN  [pass_begins    |-> [i \in 1..(pass_count + 1) |->
                               IF i = pass_count + 1 THEN Len(ops)
                               ELSE rb[pass_count + 1 - i]],
         pass_lengths   |-> [p \in 1..pass_count |-> Len(scratch[p])],
         types          |-> [i \in 1..Len(ops) |-> ops[i].type],
         kinds          |-> [i \in 1..Len(ops) |-> ops[i].kind],
         logicals       |-> [i \in 1..Len(ops) |-> ops[i].logical],
         physicals      |-> [i \in 1..Len(ops) |-> ops[i].physical],
         src_domains    |-> [i \in 1..Len(ops) |-> ops[i].src_domain],
         dst_domains    |-> [i \in 1..Len(ops) |-> ops[i].dst_domain],
         src_accesses   |-> [i \in 1..Len(ops) |-> ops[i].src_access],
         dst_accesses   |-> [i \in 1..Len(ops) |-> ops[i].dst_access],
         src_usage_bits |-> [i \in 1..Len(ops) |-> ops[i].src_usage_bits],
         dst_usage_bits |-> [i \in 1..Len(ops) |-> ops[i].dst_usage_bits],
         prev_logicals  |-> [i \in 1..Len(ops) |-> ops[i].prev_logical]]

\* per_pass_barrier: CSR ranges by pass handle over one array per field.
FlattenScratch(scratch, pass_count) ==
    LET ops == FlattenOps(scratch, pass_count)
    IN  [pass_begins    |-> BarrierBegins(scratch, pass_count),
         pass_lengths   |-> [p \in 1..pass_count |-> Len(scratch[p])],
         types          |-> [i \in 1..Len(ops) |-> ops[i].type],
         kinds          |-> [i \in 1..Len(ops) |-> ops[i].kind],
         logicals       |-> [i \in 1..Len(ops) |-> ops[i].logical],
         physicals      |-> [i \in 1..Len(ops) |-> ops[i].physical],
         src_domains    |-> [i \in 1..Len(ops) |-> ops[i].src_domain],
         dst_domains    |-> [i \in 1..Len(ops) |-> ops[i].dst_domain],
         src_accesses   |-> [i \in 1..Len(ops) |-> ops[i].src_access],
         dst_accesses   |-> [i \in 1..Len(ops) |-> ops[i].dst_access],
         src_usage_bits |-> [i \in 1..Len(ops) |-> ops[i].src_usage_bits],
         dst_usage_bits |-> [i \in 1..Len(ops) |-> ops[i].dst_usage_bits],
         prev_logicals  |-> [i \in 1..Len(ops) |-> ops[i].prev_logical]]

\* The plans Step I may leave, one per choice of iteration orders.
BarrierPlans(sorted, pass_count, rd, wd, physical) ==
    {FlattenScratch(W.scratch, pass_count) :
       W \in ScheduleWalks({[scratch |-> Fill(pass_count, <<>>),
                             last    |-> [k \in Kinds |->
                                            Fill(Len(physical[k].representative),
                                                 EmptyLastUse)]]},
                           sorted, rd, wd, physical, 1)}

-----------------------------------------------------------------------------
(* assert_no_cycles: Kahn's walk over given DAG arrays and active flags.   *)

\* in_degrees_copy[dst_pass]-- on a uint32_t, then the push if it is zero;
\* successors that are not active are skipped.
CycleRelaxEdge(Q, flags, dst_pass) ==
    IF ~At(flags, dst_pass) THEN Q
    ELSE LET d == (At(Q.deg, dst_pass) + WordRadix - 1) % WordRadix
         IN  IF d = 0
             THEN [Q EXCEPT !.deg = SetAt(@, dst_pass, d),
                            !.queue = Append(@, dst_pass)]
             ELSE [Q EXCEPT !.deg = SetAt(@, dst_pass, d)]

RECURSIVE CycleRelaxEdges(_, _, _, _, _)
CycleRelaxEdges(Q, d, flags, j, end) ==
    IF j >= end THEN Q
    ELSE CycleRelaxEdges(CycleRelaxEdge(Q, flags, At(d.adjacency_list, j)),
                         d, flags, j + 1, end)

CyclePop(Q, d, flags) ==
    LET current_pass == Head(Q.queue)
        Q0 == [Q EXCEPT !.queue = Tail(@), !.visited = @ + 1]
    IN  CycleRelaxEdges(Q0, d, flags, At(d.adjacency_begins, current_pass),
                        At(d.adjacency_begins, current_pass + 1))

RECURSIVE CycleLoop(_, _, _)
CycleLoop(Q, d, flags) ==
    IF Q.queue = <<>> THEN Q ELSE CycleLoop(CyclePop(Q, d, flags), d, flags)

RECURSIVE CycleSeed(_, _, _)
CycleSeed(Q, flags, pass) ==
    IF pass >= Len(flags) THEN Q
    ELSE CycleSeed(IF At(flags, pass) /\ At(Q.deg, pass) = 0
                   THEN [Q EXCEPT !.queue = Append(@, pass)]
                   ELSE Q,
                   flags, pass + 1)

CycleVisited(d, flags) ==
    CycleLoop(CycleSeed([deg |-> d.in_degrees, queue |-> <<>>, visited |-> 0], flags, 0),
              d, flags).visited

\* assert_no_cycles comparing the visits with the number of passes, active
\* or not.
assert_no_cycles_CountAll(d, flags) ==
    IF Len(d.in_degrees) # Len(flags) \/ Len(d.adjacency_begins) # Len(flags) + 1
    THEN "Error: DAG arrays shape mismatch!"
    ELSE IF CycleVisited(d, flags) = Len(flags)
         THEN "ok"
         ELSE "Error: Cycle detected in render graph!"

assert_no_cycles(d, flags) ==
    IF Len(d.in_degrees) # Len(flags) \/ Len(d.adjacency_begins) # Len(flags) + 1
    THEN "Error: DAG arrays shape mismatch!"
    ELSE IF CycleVisited(d, flags) = ActivePassCount(flags)
         THEN "ok"
         ELSE "Error: Cycle detected in render graph!"

-----------------------------------------------------------------------------
(* compile() as a whole: the stages in order, up to the first assertion    *)
(* that fails.                                                             *)

CompileResult(g, meta) ==
    LET pass_count == Len(g.passes)
        A      == StepA(g, meta)
        counts == [k \in Kinds |-> ResourceCount(A.meta, k)]
        B      == [k \in Kinds |-> StepB(g, A.rd[k], A.wd[k], counts[k])]
        vr     == [k \in Kinds |-> B[k].vr]
        vw     == [k \in Kinds |-> B[k].vw]
        plt    == [k \in Kinds |-> StepC(g, A.wd[k], vw[k], B[k].next, counts[k])]
        D      == StepD(A.rd, vr, plt, A.out, counts, pass_count)
        E      == StepE(g, D.flags, A.meta, A.rd, A.wd, vr, vw, plt, A.out, counts)
        F      == StepF(g, D.flags, A.rd, vr, plt, counts)
        G      == StepG(F, D.flags)
        L      == [k \in Kinds |-> Lifetimes(G.sorted, pass_count, A.rd[k], A.wd[k], counts[k])]
        P      == [k \in Kinds |-> Aliasing(A.meta, k, L[k], counts[k])]
    IN  [setup     |-> A,
         vr        |-> vr,
         vw        |-> vw,
         plt       |-> plt,
         cull      |-> D,
         dag       |-> F,
         kahn      |-> G,
         lifetimes |-> L,
         physical  |-> [k \in Kinds |->
                          [representative     |-> P[k].representative,
                           handle_to_physical |-> P[k].handle_to_physical]],
         stage     |-> IF A.failed # "none" THEN "A"
                       ELSE IF E # "ok" THEN "E"
                       ELSE IF CheckCycles(G.sorted, D.flags) # "ok" THEN "G"
                       ELSE "done",
         status    |-> IF A.failed # "none" THEN A.failed
                       ELSE IF E # "ok" THEN E
                       ELSE IF CheckCycles(G.sorted, D.flags) # "ok"
                            THEN CheckCycles(G.sorted, D.flags)
                       ELSE "compiled"]

-----------------------------------------------------------------------------
(* The state machine.                                                      *)

EmptyPhysical == [representative |-> <<>>, handle_to_physical |-> <<>>]

EmptyLifetime == [first_used |-> <<>>, last_used |-> <<>>]

EmptyProducerMap == [version_offsets |-> <<>>, latest |-> <<>>, version_producers |-> <<>>]

EmptyBarrierPlan ==
    [pass_begins |-> <<>>, pass_lengths |-> <<>>, types |-> <<>>, kinds |-> <<>>,
     logicals |-> <<>>, physicals |-> <<>>, src_domains |-> <<>>, dst_domains |-> <<>>,
     src_accesses |-> <<>>, dst_accesses |-> <<>>, src_usage_bits |-> <<>>,
     dst_usage_bits |-> <<>>, prev_logicals |-> <<>>]

Init ==
    /\ graph = [passes |-> <<>>, setup_funcs |-> <<>>, execute_funcs |-> <<>>]
    /\ meta_table = EmptyMetaTable
    /\ read_deps = [k \in Kinds |-> EmptyReadDeps(0)]
    /\ write_deps = [k \in Kinds |-> EmptyWriteDeps(0)]
    /\ ver_read_handles = [k \in Kinds |-> <<>>]
    /\ ver_write_handles = [k \in Kinds |-> <<>>]
    /\ producer_lookup_table = [k \in Kinds |-> EmptyProducerMap]
    /\ output_table = [k \in Kinds |-> <<>>]
    /\ active_pass_flags = <<>>
    /\ dag = [adjacency_list |-> <<>>, adjacency_begins |-> <<>>,
              in_degrees |-> <<>>, out_degrees |-> <<>>]
    /\ sorted_passes = <<>>
    /\ resource_lifetimes = [k \in Kinds |-> EmptyLifetime]
    /\ physical_resource_metas = [k \in Kinds |-> EmptyPhysical]
    /\ per_pass_barriers = EmptyBarrierPlan
    /\ status = "idle"
    /\ cycle_check = "none"
    /\ compile_calls = 0
    /\ backend = "null"
    /\ backend_calls = <<>>
    /\ execute_calls = 0
    /\ codec = [stage |-> "idle", index |-> 0, version |-> 0, packed |-> 0,
                unpacked_resource |-> 0, unpacked_version |-> 0]

\* add_pass(setup, execute): the new pass's handle is the number of passes.
\* An execute callback is "callback", or "empty" for the rg_function that
\* holds no callable.
add_pass_execute(setup, execute, limit) ==
    /\ status = "idle"
    /\ cycle_check \in {"none", "ok"}
    /\ Len(graph.passes) < limit
    /\ graph' = [passes        |-> Append(graph.passes, Len(graph.passes)),
                 setup_funcs   |-> Append(graph.setup_funcs, setup),
                 execute_funcs |-> Append(graph.execute_funcs, execute)]
    /\ UNCHANGED <<meta_table, read_deps, write_deps, ver_read_handles,
                   ver_write_handles, producer_lookup_table, output_table,
                   active_pass_flags, dag, sorted_passes, resource_lifetimes,
                   physical_resource_metas, per_pass_barriers, status, cycle_check,
                   compile_calls, backend, backend_calls, execute_calls, codec>>

\* add_pass with an execute callback that holds a callable.
add_pass(setup, limit) == add_pass_execute(setup, "callback", limit)

\* compile(): every stage that runs before the first failed assertion
\* leaves its result; the stages after it leave theirs untouched.  No call
\* follows a failed assertion; cycle_check speaks of dag and
\* active_pass_flags as they stand, so compile() clears it.  A call finds
\* meta_table as the calls before it left it; limit caps the calls.
compile_upto(limit) ==
    /\ status \in {"idle", "compiled"}
    /\ compile_calls < limit
    /\ compile_calls' = compile_calls + 1
    /\ cycle_check \in {"none", "ok"}
    /\ cycle_check' = "none"
    /\ \E R \in {CompileResult(graph, meta_table)} :
           /\ status' = R.status
           /\ meta_table' = R.setup.meta
           /\ read_deps' = R.setup.rd
           /\ write_deps' = R.setup.wd
           /\ output_table' = R.setup.out
           /\ IF R.stage = "A"
              THEN /\ ver_read_handles' = [k \in Kinds |-> <<>>]
                   /\ ver_write_handles' = [k \in Kinds |-> <<>>]
                   /\ UNCHANGED <<producer_lookup_table, active_pass_flags>>
              ELSE /\ ver_read_handles' = R.vr
                   /\ ver_write_handles' = R.vw
                   /\ producer_lookup_table' = R.plt
                   /\ active_pass_flags' = R.cull.flags
           /\ IF R.stage \in {"A", "E"}
              THEN UNCHANGED <<dag, sorted_passes>>
              ELSE /\ dag' = R.dag
                   /\ sorted_passes' = R.kahn.sorted
           /\ IF R.stage = "done"
              THEN /\ resource_lifetimes' = R.lifetimes
                   /\ physical_resource_metas' = R.physical
                   /\ per_pass_barriers' \in
                          BarrierPlans(R.kahn.sorted, Len(graph.passes),
                                       R.setup.rd, R.setup.wd, R.physical)
              ELSE UNCHANGED <<resource_lifetimes, physical_resource_metas,
                               per_pass_barriers>>
           /\ backend_calls' =
                  IF R.stage = "done" /\ backend # "null"
                  THEN Append(backend_calls, [call |-> "on_compile_resource_allocation"])
                  ELSE backend_calls
    /\ UNCHANGED <<graph, backend, execute_calls, codec>>

\* compile() on a system that has not been compiled.
compile == compile_upto(1)

\* The host overwrites the public members dag and active_pass_flags of a
\* system that holds no pass.  From then on the members are neither fresh
\* nor a result of compile(): status is "injected".
inject_dag(d, flags) ==
    /\ status = "idle"
    /\ graph.passes = <<>>
    /\ cycle_check = "none"
    /\ dag' = d
    /\ active_pass_flags' = flags
    /\ status' = "injected"
    /\ UNCHANGED <<graph, meta_table, read_deps, write_deps, ver_read_handles,
                   ver_write_handles, producer_lookup_table, output_table,
                   sorted_passes, resource_lifetimes, physical_resource_metas,
                   per_pass_barriers, cycle_check, compile_calls, backend,
                   backend_calls, execute_calls, codec>>

\* render_graph_system::assert_no_cycles(dag, active_pass_flags), called by
\* the host on the members as they stand.
call_assert_no_cycles ==
    /\ cycle_check = "none"
    /\ cycle_check' = assert_no_cycles(dag, active_pass_flags)
    /\ UNCHANGED <<graph, meta_table, read_deps, write_deps, ver_read_handles,
                   ver_write_handles, producer_lookup_table, output_table,
                   active_pass_flags, dag, sorted_passes, resource_lifetimes,
                   physical_resource_metas, per_pass_barriers, status, compile_calls,
                   backend, backend_calls, execute_calls, codec>>

\* set_backend(backend_ptr), with a null or a non-null pointer.
set_backend(backend_ptr) ==
    /\ status \in {"idle", "compiled"}
    /\ backend' = backend_ptr
    /\ UNCHANGED <<graph, meta_table, read_deps, write_deps, ver_read_handles,
                   ver_write_handles, producer_lookup_table, output_table,
                   active_pass_flags, dag, sorted_passes, resource_lifetimes,
                   physical_resource_metas, per_pass_barriers, status, cycle_check,
                   compile_calls, backend_calls, execute_calls, codec>>

RECURSIVE ExecuteCalls_CallbackFirst(_, _, _)
ExecuteCalls_CallbackFirst(sorted, funcs, plan) ==
    IF sorted = <<>>
    THEN <<>>
    ELSE LET pass == Head(sorted)
         IN  (IF pass < Len(funcs) /\ At(funcs, pass) # "empty"
              THEN <<[call |-> "execute_func", pass |-> pass]>>
              ELSE <<>>)
             \o <<[call |-> "apply_barriers", pass |-> pass, plan |-> plan]>>
             \o ExecuteCalls_CallbackFirst(Tail(sorted), funcs, plan)

\* The loop of execute(): for each pass of sorted, apply_barriers(pass, plan)
\* and then the pass's execute callback if the pass has one that holds a
\* callable.
RECURSIVE ExecuteCalls(_, _, _)
ExecuteCalls(sorted, funcs, plan) ==
    IF sorted = <<>>
    THEN <<>>
    ELSE LET pass == Head(sorted)
         IN  <<[call |-> "apply_barriers", pass |-> pass, plan |-> plan]>>
             \o (IF pass < Len(funcs) /\ At(funcs, pass) # "empty"
                 THEN <<[call |-> "execute_func", pass |-> pass]>>
                 ELSE <<>>)
             \o ExecuteCalls(Tail(sorted), funcs, plan)

\* execute(): nothing without a backend, the loop otherwise.  limit caps
\* the calls.
execute(limit) ==
    /\ status \in {"idle", "compiled"}
    /\ execute_calls < limit
    /\ execute_calls' = execute_calls + 1
    /\ backend_calls' =
           IF backend = "null"
           THEN backend_calls
           ELSE backend_calls \o ExecuteCalls(sorted_passes, graph.execute_funcs,
                                              per_pass_barriers)
    /\ UNCHANGED <<graph, meta_table, read_deps, write_deps, ver_read_handles,
                   ver_write_handles, producer_lookup_table, output_table,
                   active_pass_flags, dag, sorted_passes, resource_lifetimes,
                   physical_resource_metas, per_pass_barriers, status, cycle_check,
                   compile_calls, backend, codec>>

\* A host packs a handle and a version, both uint32_t, into a versioned handle.
\* render_graph_system::clear(): resource_meta_table::clear() on meta_table,
\* nothing else of the system is touched.
clear ==
    /\ status \in {"idle", "compiled"}
    /\ meta_table' = [image  |-> image_meta_clear(meta_table.image),
                      buffer |-> buffer_meta_clear(meta_table.buffer)]
    /\ UNCHANGED <<graph, read_deps, write_deps, ver_read_handles,
                   ver_write_handles, producer_lookup_table, output_table,
                   active_pass_flags, dag, sorted_passes, resource_lifetimes,
                   physical_resource_metas, per_pass_barriers, status, cycle_check,
                   compile_calls, backend, backend_calls, execute_calls, codec>>

call_pack(index, version) ==
    /\ codec.stage = "idle"
    /\ codec' = [codec EXCEPT !.stage = "packed", !.index = index, !.version = version,
                              !.packed = pack(index, version)]
    /\ UNCHANGED <<graph, meta_table, read_deps, write_deps, ver_read_handles,
                   ver_write_handles, producer_lookup_table, output_table,
                   active_pass_flags, dag, sorted_passes, resource_lifetimes,
                   physical_resource_metas, per_pass_barriers, status, cycle_check,
                   compile_calls, backend, backend_calls, execute_calls>>

\* The host unpacks the versioned handle it holds.
call_unpack ==
    /\ codec.stage = "packed"
    /\ codec' = [codec EXCEPT !.stage = "unpacked",
                              !.unpacked_resource = unpack_to_resource(codec.packed),
                              !.unpacked_version = unpack_to_version(codec.packed)]
    /\ UNCHANGED <<graph, meta_table, read_deps, write_deps, ver_read_handles,
                   ver_write_handles, producer_lookup_table, output_table,
                   active_pass_flags, dag, sorted_passes, resource_lifetimes,
                   physical_resource_metas, per_pass_barriers, status, cycle_check,
                   compile_calls, backend, backend_calls, execute_calls>>

-----------------------------------------------------------------------------
(* Inputs: the setup callbacks a host may pass to add_pass.  A callback is *)
(* the sequence of calls it makes.                                         *)

BaseImageInfo ==
    [name |-> "img", fmt |-> R8G8B8A8_UNORM,
     extent |-> [width |-> 100, height |-> 100, depth |-> 1],
     usage |-> IMAGE_SAMPLED, type |-> TYPE_2D, flags |-> 0, mip_levels |-> 1,
     array_layers |-> 1, sample_counts |-> 1, imported |-> FALSE]

BaseBufferInfo ==
    [name |-> "buf", size |-> 1024, usage |-> BUFFER_STORAGE_BUFFER, imported |-> FALSE]

BaseInfo(kind) == IF kind = "image" THEN BaseImageInfo ELSE BaseBufferInfo

Imported(info) == [info EXCEPT !.imported = TRUE]

WideImageInfo == [BaseImageInfo EXCEPT !.extent.width = 200]

LargeBufferInfo == [BaseBufferInfo EXCEPT !.size = 2048]

\* BaseImageInfo changed in exactly one of the fields is_compatible compares.
ImageInfoVariants ==
    {WideImageInfo,
     [BaseImageInfo EXCEPT !.fmt = R8G8B8A8_SRGB],
     [BaseImageInfo EXCEPT !.extent.height = 200],
     [BaseImageInfo EXCEPT !.extent.depth = 2],
     [BaseImageInfo EXCEPT !.usage = IMAGE_STORAGE],
     [BaseImageInfo EXCEPT !.type = TYPE_3D],
     [BaseImageInfo EXCEPT !.flags = CUBE_COMPATIBLE],
     [BaseImageInfo EXCEPT !.mip_levels = 2],
     [BaseImageInfo EXCEPT !.array_layers = 2],
     [BaseImageInfo EXCEPT !.sample_counts = 4]}

BufferInfoVariants ==
    {LargeBufferInfo, [BaseBufferInfo EXCEPT !.usage = BUFFER_UNIFORM_BUFFER]}

CreateCall(kind, info) == [op |-> "create", kind |-> kind, info |-> info]

ReadCall(kind, res) ==
    [op |-> "read", kind |-> kind, res |-> res,
     usage |-> IF kind = "image" THEN IMAGE_SAMPLED ELSE BUFFER_UNIFORM_BUFFER]

WriteCall(kind, res) ==
    [op |-> "write", kind |-> kind, res |-> res,
     usage |-> IF kind = "image" THEN IMAGE_COLOR_ATTACHMENT ELSE BUFFER_STORAGE_BUFFER]

DeclareCall(kind, res) == [op |-> "declare", kind |-> kind, res |-> res]

\* h = create(info); write(h); and, if declared, declare_output(h).
Produce(kind, info, declared) ==
    <<CreateCall(kind, info), WriteCall(kind, Ret)>>
    \o (IF declared THEN <<DeclareCall(kind, Ret)>> ELSE <<>>)

\* Callbacks of Spec: at most one read of an earlier handle, then nothing,
\* a fresh transient resource written (an output or not), or image 0
\* written again.
SchedSetupFuncs ==
    LET reads  == {<<>>, <<ReadCall("image", Lit(0))>>, <<ReadCall("image", Lit(1))>>,
                   <<ReadCall("buffer", Lit(0))>>}
        writes == {<<>>, <<WriteCall("image", Lit(0))>>}
                  \cup {Produce(k, BaseInfo(k), d) : k \in Kinds, d \in BOOLEAN}
    IN  {r \o w : r \in reads, w \in writes}

\* Callbacks of SpecAlias: at most one read of handle 0, then one fresh
\* resource written: of either kind, base or larger, transient or imported.
AliasSetupFuncs ==
    LET reads  == {<<>>, <<ReadCall("image", Lit(0))>>, <<ReadCall("buffer", Lit(0))>>}
        writes == {Produce("image", BaseImageInfo, FALSE),
                   Produce("image", BaseImageInfo, TRUE)
                       \o Produce("image", BaseImageInfo, FALSE)}
                  \cup {Produce("image", i, TRUE) :
                          i \in {BaseImageInfo, WideImageInfo, Imported(BaseImageInfo)}}
                  \cup {Produce("buffer", i, TRUE) :
                          i \in {BaseBufferInfo, LargeBufferInfo, Imported(BaseBufferInfo)}}
    IN  {r \o w : r \in reads, w \in writes}

\* Callbacks of SpecValid.  First part: nothing, a read of handle 0 or of
\* an out-of-range handle, or a fresh resource (transient or imported) that
\* is read without being written, or only created.  Second part: nothing, a
\* fresh resource written (an output or not), or an out-of-range handle
\* written by a pass that also produces an output.
ValidSetupFuncs ==
    LET reads  == {<<>>, <<CreateCall("image", BaseImageInfo)>>}
                  \cup {<<ReadCall(k, Lit(0))>> : k \in Kinds}
                  \cup {<<ReadCall("image", Lit(OutOfRangeHandle))>>}
                  \cup {<<CreateCall(k, BaseInfo(k)), ReadCall(k, Ret)>> : k \in Kinds}
                  \cup {<<CreateCall(k, Imported(BaseInfo(k))), ReadCall(k, Ret)>> :
                          k \in Kinds}
        writes == {<<>>, Produce("image", BaseImageInfo, FALSE)}
                  \cup {Produce(k, BaseInfo(k), TRUE) : k \in Kinds}
                  \cup {<<WriteCall(k, Lit(OutOfRangeHandle))>>
                            \o Produce(k, BaseInfo(k), TRUE) : k \in Kinds}
    IN  {r \o w : r \in reads, w \in writes}

-----------------------------------------------------------------------------
(* Specifications: the same system under its families of callbacks.     *)

\* Callbacks of SpecDag: no read, one read, the same image read twice, or
\* an image and a buffer read; then nothing, image 0 written again without
\* being read, a fresh image written, or a fresh image and a fresh buffer
\* written by the one pass.
DagSetupFuncs ==
    LET reads  == {<<>>, <<ReadCall("image", Lit(0))>>, <<ReadCall("image", Lit(1))>>,
                   <<ReadCall("image", Lit(0)), ReadCall("image", Lit(0))>>,
                   <<ReadCall("image", Lit(0)), ReadCall("buffer", Lit(0))>>}
        writes == {<<>>, <<WriteCall("image", Lit(0))>>,
                   Produce("image", BaseImageInfo, TRUE),
                   Produce("image", BaseImageInfo, FALSE)
                       \o Produce("buffer", BaseBufferInfo, TRUE)}
    IN  {r \o w : r \in reads, w \in writes}

\* Callbacks of SpecGen: no read, a read of image 0 or of buffer 0, a
\* read of a handle no create call returned, or a read of a fresh imported
\* image that nothing writes; then nothing, image 0
\* written again once or twice, a fresh image written, a fresh buffer
\* written twice by the one pass, or a write to a handle no create call
\* returned ahead of a fresh image.
GenSetupFuncs ==
    LET reads  == {<<>>, <<ReadCall("image", Lit(0))>>,
                   <<ReadCall("buffer", Lit(0))>>,
                   <<ReadCall("image", Lit(OutOfRangeHandle))>>,
                   <<CreateCall("image", Imported(BaseImageInfo)), ReadCall("image", Ret)>>}
        writes == {<<>>, <<WriteCall("image", Lit(0))>>,
                   <<WriteCall("image", Lit(0)), WriteCall("image", Lit(0))>>,
                   Produce("image", BaseImageInfo, TRUE),
                   Produce("buffer", BaseBufferInfo, TRUE) \o <<WriteCall("buffer", Ret)>>,
                   <<WriteCall("image", Lit(OutOfRangeHandle))>>
                       \o Produce("image", BaseImageInfo, TRUE)}
    IN  {r \o w : r \in reads, w \in writes}

\* Callbacks of SpecBarrier: no read, image 0 read as sampled, image 0 read
\* twice as sampled and as storage, image 1 read as sampled, or buffer 0
\* read as storage buffer; then nothing, image 0 written again as storage, a
\* fresh image written as colour attachment, declared or not, or a fresh
\* buffer written as storage buffer.
BarrierSetupFuncs ==
    LET reads  == {<<>>, <<ReadCall("image", Lit(0))>>,
                   <<ReadCall("image", Lit(0)),
                     [ReadCall("image", Lit(0)) EXCEPT !.usage = IMAGE_STORAGE]>>,
                   <<ReadCall("image", Lit(1))>>,
                   <<[ReadCall("buffer", Lit(0)) EXCEPT !.usage = BUFFER_STORAGE_BUFFER]>>}
        writes == {<<>>, <<[WriteCall("image", Lit(0)) EXCEPT !.usage = IMAGE_STORAGE]>>,
                   Produce("image", BaseImageInfo, FALSE),
                   Produce("image", BaseImageInfo, TRUE),
                   Produce("buffer", BaseBufferInfo, TRUE)}
    IN  {r \o w : r \in reads, w \in writes}

\* Callbacks of SpecTwice, which name a resource only by what the latest
\* create call of its kind returned: no read, the latest image or buffer
\* read, or a fresh imported image read; then nothing, the latest image
\* written again, a fresh image written, declared or not, or a fresh
\* buffer written and declared.
TwiceSetupFuncs ==
    LET reads  == {<<>>, <<ReadCall("image", Ret)>>, <<ReadCall("buffer", Ret)>>,
                   <<CreateCall("image", Imported(BaseImageInfo)), ReadCall("image", Ret)>>}
        writes == {<<>>, <<WriteCall("image", Ret)>>,
                   Produce("image", BaseImageInfo, FALSE),
                   Produce("image", BaseImageInfo, TRUE),
                   Produce("buffer", BaseBufferInfo, TRUE)}
    IN  {r \o w : r \in reads, w \in writes}

\* DAG arrays a host may write into the system: over n passes, the CSR form
\* of an edge set E (self-loops and edges at inactive passes included),
\* with in-degrees that count the edges between active passes.
InjectedDag(n, E, flags) ==
    LET outgoing == [i \in 1..n |-> SortedSeqOf({v \in 0..(n - 1) : <<i - 1, v>> \in E})]
    IN  [adjacency_list   |-> Flatten(outgoing, n),
         adjacency_begins |-> AdjacencyBegins(outgoing, n),
         in_degrees       |-> [i \in 1..n |->
                                 IF flags[i]
                                 THEN Cardinality({u \in 0..(n - 1) :
                                          At(flags, u) /\ <<u, i - 1>> \in E})
                                 ELSE 0],
         out_degrees      |-> [i \in 1..n |-> Len(outgoing[i])]]

Next ==
    \/ \E setup \in SchedSetupFuncs : add_pass(setup, MaxPasses)
    \/ compile

Spec == Init /\ [][Next]_vars

NextAlias ==
    \/ \E setup \in AliasSetupFuncs : add_pass(setup, MaxPasses)
    \/ compile

SpecAlias == Init /\ [][NextAlias]_vars

\* The callbacks of SpecCompat create a fresh output whose info is the base
\* one or differs from it in one field.
NextCompat ==
    \/ \E setup \in
           {Produce("image", i, TRUE) : i \in {BaseImageInfo} \cup ImageInfoVariants}
           \cup {Produce("buffer", i, TRUE) :
                    i \in {BaseBufferInfo} \cup BufferInfoVariants} :
         add_pass(setup, MaxPasses)
    \/ compile

SpecCompat == Init /\ [][NextCompat]_vars

NextValid ==
    \/ \E setup \in ValidSetupFuncs : add_pass(setup, MaxValidationPasses)
    \/ compile

SpecValid == Init /\ [][NextValid]_vars

NextGen ==
    \/ \E setup \in GenSetupFuncs : add_pass(setup, MaxPasses)
    \/ compile

SpecGen == Init /\ [][NextGen]_vars

NextBarrier ==
    \/ \E setup \in BarrierSetupFuncs : add_pass(setup, MaxPasses)
    \/ compile

SpecBarrier == Init /\ [][NextBarrier]_vars

\* SpecClear: passes that create, write and declare one resource, imported or
\* not, or read the first image; compile() up to MaxCompiles times, clear()
\* at any point between.
NextClear ==
    \/ \E setup \in
           {Produce(k, [BaseImageInfo EXCEPT !.imported = b], TRUE) :
                k \in {"image"}, b \in BOOLEAN}
           \cup {Produce(k, [BaseBufferInfo EXCEPT !.imported = b], TRUE) :
                    k \in {"buffer"}, b \in BOOLEAN}
           \cup {<<ReadCall("image", Lit(0))>> \o Produce("buffer", BaseBufferInfo, TRUE)} :
         add_pass(setup, MaxPasses)
    \/ compile_upto(MaxCompiles)
    \/ clear

SpecClear == Init /\ [][NextClear]_vars

NextTwice ==
    \/ \E setup \in TwiceSetupFuncs : add_pass(setup, MaxPasses)
    \/ compile_upto(MaxCompiles)

SpecTwice == Init /\ [][NextTwice]_vars

\* Setup callbacks of SpecExec: a fresh image written and declared or not,
\* after no read or a read of the first image; each with an execute
\* callback that holds a callable or none.
NextExec ==
    \/ \E r \in {<<>>, <<ReadCall("image", Lit(0))>>}, d \in BOOLEAN,
          exec \in {"callback", "empty"} :
         add_pass_execute(r \o Produce("image", BaseImageInfo, d), exec, MaxPasses)
    \/ compile
    \/ \E backend_ptr \in {"null", "set"} : set_backend(backend_ptr)
    \/ execute(MaxExecutes)

SpecExec == Init /\ [][NextExec]_vars

\* Setup callbacks of SpecCull: a fresh image written, declared or not;
\* image 0 declared by a pass that reads it, that does nothing else, or that
\* writes it; image 0 read ahead of a fresh declared image; image 0 written
\* again.
NextCull ==
    \/ \E setup \in {Produce("image", BaseImageInfo, FALSE),
                    Produce("image", BaseImageInfo, TRUE),
                    <<ReadCall("image", Lit(0)), DeclareCall("image", Lit(0))>>,
                    <<DeclareCall("image", Lit(0))>>,
                    <<WriteCall("image", Lit(0)), DeclareCall("image", Lit(0))>>,
                    <<ReadCall("image", Lit(0))>> \o Produce("image", BaseImageInfo, TRUE),
                    <<WriteCall("image", Lit(0))>>} :
         add_pass(setup, MaxPasses)
    \/ compile

SpecCull == Init /\ [][NextCull]_vars

\* Setup callbacks of SpecLifetime, those of the lifetime and aliasing test:
\* every callback but the first reads the image the latest create call
\* returned; each creates an image and writes it; the last one's image is
\* wider and declared.
NextLifetime ==
    \/ \E setup \in
           {<<CreateCall("image", [BaseImageInfo EXCEPT !.name = "R1"]),
              [WriteCall("image", Ret) EXCEPT !.usage = IMAGE_TRANSFER_DST]>>}
           \cup {<<[ReadCall("image", Ret) EXCEPT !.usage = IMAGE_TRANSFER_SRC],
                   CreateCall("image", [BaseImageInfo EXCEPT !.name = n]),
                   [WriteCall("image", Ret) EXCEPT !.usage = IMAGE_TRANSFER_DST]>> :
                    n \in {"R2", "R3", "Out"}}
           \cup {<<[ReadCall("image", Ret) EXCEPT !.usage = IMAGE_TRANSFER_SRC],
                   CreateCall("image", [WideImageInfo EXCEPT !.name = "R4"]),
                   [WriteCall("image", Ret) EXCEPT !.usage = IMAGE_TRANSFER_DST],
                   DeclareCall("image", Ret)>>} :
         add_pass(setup, MaxLifetimePasses)
    \/ compile

SpecLifetime == Init /\ [][NextLifetime]_vars

\* Arguments of SpecPack: the words 2^b and 2^b - 1, which hold the least
\* word, the greatest word (the invalid handle) and every bit of a word.
NextPack ==
    \/ \E b, c \in 0..WordBits, i, j \in {0, 1} :
         /\ 2 ^ b - i < WordRadix
         /\ 2 ^ c - j < WordRadix
         /\ call_pack(2 ^ b - i, 2 ^ c - j)
    \/ call_unpack

SpecPack == Init /\ [][NextPack]_vars

\* Setup callbacks of SpecOrder: a fresh image written, declared or not;
\* image 0 read and written by the one pass, the read_image call before or
\* after the write_image call, alone or ahead of a fresh declared image;
\* image 0 read ahead of a fresh declared image.
NextOrder ==
    \/ \E setup \in
           {Produce("image", BaseImageInfo, d) : d \in BOOLEAN}
           \cup {rw \o w : rw \in {<<ReadCall("image", Lit(0)), WriteCall("image", Lit(0))>>,
                                   <<WriteCall("image", Lit(0)), ReadCall("image", Lit(0))>>},
                           w \in {<<>>, Produce("image", BaseImageInfo, TRUE)}}
           \cup {<<ReadCall("image", Lit(0))>> \o Produce("image", BaseImageInfo, TRUE)} :
         add_pass(setup, MaxPasses)
    \/ compile

SpecOrder == Init /\ [][NextOrder]_vars

NextDag ==
    \/ \E setup \in DagSetupFuncs : add_pass(setup, MaxPasses)
    \/ compile

SpecDag == Init /\ [][NextDag]_vars

\* The callbacks of SpecCycle are the three passes of the chain 0 -> 1 -> 2.
NextCycle ==
    \/ \E setup \in
           {Produce("image", BaseImageInfo, FALSE),
            <<ReadCall("image", Lit(0))>> \o Produce("image", BaseImageInfo, FALSE),
            <<ReadCall("image", Lit(1))>> \o Produce("image", BaseImageInfo, TRUE)} :
         add_pass(setup, MaxPasses)
    \/ compile
    \/ \E n \in 1..MaxCyclePasses :
         \E flags \in [1..n -> BOOLEAN] :
           \E E \in SUBSET ((0..(n - 1)) \X (0..(n - 1))) :
             inject_dag(InjectedDag(n, E, flags), flags)
    \/ call_assert_no_cycles

SpecCycle == Init /\ [][NextCycle]_vars

-----------------------------------------------------------------------------
(* What the claims speak of, read from the state.                          *)

PassCount == Len(graph.passes)

Passes == 0..(PassCount - 1)

Live(p) == At(active_pass_flags, p)

LivePasses == {p \in Passes : Live(p)}

Count(k) == Len(meta_table[k].names)

Resources(k) == 0..(Count(k) - 1)

ReadRange(k, p) ==
    {j \in 0..(Len(read_deps[k].read_list) - 1) :
        /\ At(read_deps[k].begins, p) <= j
        /\ j < At(read_deps[k].begins, p) + At(read_deps[k].lengthes, p)}

WriteRange(k, p) ==
    {j \in 0..(Len(write_deps[k].write_list) - 1) :
        /\ At(write_deps[k].begins, p) <= j
        /\ j < At(write_deps[k].begins, p) + At(write_deps[k].lengthes, p)}

\* The pass the producer table records for a versioned handle (h, v).
RecordedProducer(k, vh) ==
    At(producer_lookup_table[k].version_producers,
       At(producer_lookup_table[k].version_offsets, unpack_to_resource(vh))
         + unpack_to_version(vh))

\* The passes whose output a pass reads: the recorded producers of the
\* versions its read records are paired with.
ReadProducers(p) ==
    {RecordedProducer(k[1], At(ver_read_handles[k[1]], k[2])) :
        k \in {x \in Kinds \X (0..(Len(read_deps.image.read_list) + Len(read_deps.buffer.read_list))) :
                 /\ x[2] \in ReadRange(x[1], p)
                 /\ At(ver_read_handles[x[1]], x[2]) # invalid_resource_version}}

\* The DAG edges q -> p the claims speak of.
ReadEdge(q, p) == /\ p \in LivePasses
                  /\ q \in LivePasses
                  /\ q # p
                  /\ q \in ReadProducers(p)

Positions(p) == {i \in 1..Len(sorted_passes) : sorted_passes[i] = p}

-----------------------------------------------------------------------------
(* C1: after a successful compile(), for every read record of a live pass  *)
(* P whose version was produced by a live pass Q other than P, Q stands at *)
(* a strictly smaller index than P in sorted_passes.                       *)

C1_ProducerBeforeReader ==
    status = "compiled" =>
        \A p \in Passes : \A q \in Passes :
            ReadEdge(q, p) =>
                /\ Positions(q) # {}
                /\ Positions(p) # {}
                /\ \A i \in Positions(q) : \A j \in Positions(p) : i < j

\* An edge between live passes, in a schedule that is not the declaration order.
C1_Witness ==
    /\ status = "compiled"
    /\ \E p \in Passes : \E q \in Passes : ReadEdge(q, p)
    /\ \E i \in 1..(Len(sorted_passes) - 1) : sorted_passes[i] > sorted_passes[i + 1]

(* C2: after a successful compile(), sorted_passes is a permutation of the *)
(* live passes: each live pass occurs exactly once, no culled pass occurs, *)
(* and the length is the number of live passes.                            *)

C2_SchedulePermutation ==
    status = "compiled" =>
        /\ \A p \in Passes : Cardinality(Positions(p)) = IF Live(p) THEN 1 ELSE 0
        /\ \A i \in 1..Len(sorted_passes) : sorted_passes[i] \in LivePasses
        /\ Len(sorted_passes) = Cardinality(LivePasses)

\* A schedule of at least two passes beside a culled pass.
C2_Witness ==
    /\ status = "compiled"
    /\ Cardinality(LivePasses) >= 2
    /\ LivePasses # Passes
    /\ \E p \in Passes : \E q \in Passes : ReadEdge(q, p)

(* C3: after culling, the live passes are exactly the least set that holds *)
(* the producer of the latest version of every declared output and, with a *)
(* pass, the producers of the versions it reads.                           *)

OutputSeeds ==
    {RecordedProducer(x[1], At(producer_lookup_table[x[1]].latest, x[2])) :
        x \in {y \in Kinds \X (Resources("image") \cup Resources("buffer")) :
                 /\ y[2] \in SeqElems(output_table[y[1]])
                 /\ y[2] \in Resources(y[1])
                 /\ At(producer_lookup_table[y[1]].latest, y[2]) # invalid_resource_version}}

RECURSIVE ReadClosure(_)
ReadClosure(S) ==
    LET T == S \cup UNION {ReadProducers(p) : p \in S}
    IN  IF T = S THEN S ELSE ReadClosure(T)

C3_LiveIsLeastClosedSet ==
    status # "idle" => LivePasses = ReadClosure(OutputSeeds)

\* A pass kept live only through a read of a live pass, beside a culled pass.
C3_Witness ==
    /\ status = "compiled"
    /\ \E p \in LivePasses : p \notin OutputSeeds
    /\ \E p \in Passes : p \notin LivePasses /\ At(write_deps.image.lengthes, p) > 0

-----------------------------------------------------------------------------
(* Lifetimes and physical slots, read from the state.                      *)

Phys(k, h) == At(physical_resource_metas[k].handle_to_physical, h)

Representative(k, u) == At(physical_resource_metas[k].representative, u)

FirstUse(k, h) == At(resource_lifetimes[k].first_used, h)

LastUse(k, h) == At(resource_lifetimes[k].last_used, h)

Used(k, h) == FirstUse(k, h) # invalid_pass

IsImported(k, h) == At(meta_table[k].is_imported, h)

SameSlot(k, a, b) == Phys(k, a) # invalid_resource /\ Phys(k, a) = Phys(k, b)

\* Two closed intervals overlap when the larger start is at most the smaller end.
LifetimesOverlap(k, a, b) ==
    Max(FirstUse(k, a), FirstUse(k, b)) <= Min(LastUse(k, a), LastUse(k, b))

\* Field-by-field equality of the creation attributes of two resources.
SameAttributes(k, a, b) ==
    IF k = "image"
    THEN /\ At(meta_table.image.formats, a) = At(meta_table.image.formats, b)
         /\ At(meta_table.image.extents, a) = At(meta_table.image.extents, b)
         /\ At(meta_table.image.usages, a) = At(meta_table.image.usages, b)
         /\ At(meta_table.image.types, a) = At(meta_table.image.types, b)
         /\ At(meta_table.image.flags, a) = At(meta_table.image.flags, b)
         /\ At(meta_table.image.mip_levels, a) = At(meta_table.image.mip_levels, b)
         /\ At(meta_table.image.array_layers, a) = At(meta_table.image.array_layers, b)
         /\ At(meta_table.image.sample_counts, a) = At(meta_table.image.sample_counts, b)
    ELSE /\ At(meta_table.buffer.sizes, a) = At(meta_table.buffer.sizes, b)
         /\ At(meta_table.buffer.usages, a) = At(meta_table.buffer.usages, b)

UsedTransients(k) == {h \in Resources(k) : Used(k, h) /\ ~IsImported(k, h)}

(* C4: after a successful compile(), on every physical slot of either kind *)
(* the lifetime intervals of any two distinct non-imported logical         *)
(* resources mapped to that slot do not overlap.                           *)

C4_SharedSlotLifetimesDisjoint ==
    status = "compiled" =>
        \A k \in Kinds : \A a \in Resources(k) : \A b \in Resources(k) :
            (a # b /\ ~IsImported(k, a) /\ ~IsImported(k, b) /\ SameSlot(k, a, b))
                => ~LifetimesOverlap(k, a, b)

\* Two transients share a slot while two others, alike in every attribute,
\* are held apart by lifetimes that only touch in one schedule index.
C4_Witness ==
    /\ status = "compiled"
    /\ \E k \in Kinds : \E a \in UsedTransients(k) : \E b \in UsedTransients(k) :
           a # b /\ SameSlot(k, a, b)
    /\ \E k \in Kinds : \E a \in UsedTransients(k) : \E b \in UsedTransients(k) :
           /\ a # b
           /\ SameAttributes(k, a, b)
           /\ LastUse(k, a) = FirstUse(k, b)
           /\ ~SameSlot(k, a, b)

(* C5: after a successful compile(), every used imported resource has a    *)
(* physical id that no other logical resource of its kind is mapped to.    *)

C5_ImportedSlotExclusive ==
    status = "compiled" =>
        \A k \in Kinds : \A h \in Resources(k) :
            (Used(k, h) /\ IsImported(k, h)) =>
                /\ Phys(k, h) # invalid_resource
                /\ \A g \in Resources(k) : g # h => Phys(k, g) # Phys(k, h)

\* A used imported resource followed by a transient of the same attributes
\* whose lifetime starts after the imported one's has ended.
C5_Witness ==
    /\ status = "compiled"
    /\ \E k \in Kinds : \E h \in Resources(k) : \E g \in UsedTransients(k) :
           /\ Used(k, h)
           /\ IsImported(k, h)
           /\ h < g
           /\ SameAttributes(k, h, g)
           /\ LastUse(k, h) < FirstUse(k, g)

(* C6: after a successful compile(), any two logical resources mapped to   *)
(* the same physical slot are compatible: images agree on format, extent,  *)
(* usage, type, flags, mip levels, array layers and sample count; buffers  *)
(* agree on size and usage.                                                *)

C6_SharedSlotCompatible ==
    status = "compiled" =>
        \A k \in Kinds : \A a \in Resources(k) : \A b \in Resources(k) :
            SameSlot(k, a, b) => SameAttributes(k, a, b)

\* Two resources share a slot while a third, of disjoint lifetime but
\* different attributes, is on another slot.
C6_Witness ==
    /\ status = "compiled"
    /\ \E k \in Kinds : \E a \in UsedTransients(k) : \E b \in UsedTransients(k) :
         \E c \in UsedTransients(k) :
           /\ a # b
           /\ SameSlot(k, a, b)
           /\ ~SameAttributes(k, a, c)
           /\ ~LifetimesOverlap(k, a, c)
           /\ ~LifetimesOverlap(k, b, c)
           /\ ~SameSlot(k, a, c)

(* C7: aliasing is greedy first-fit in handle order: each used transient   *)
(* resource is on the lowest-numbered slot that existed when its turn came *)
(* and that is not an imported slot, has a compatible representative and   *)
(* holds no interval overlapping its own; only when there is no such slot  *)
(* is it on a new slot, of which it is the representative.                 *)

EarlierUsed(k, r) == {g \in Resources(k) : g < r /\ Used(k, g)}

SlotsBefore(k, r) == {Phys(k, g) : g \in EarlierUsed(k, r)}

EligibleSlots(k, r) ==
    {u \in SlotsBefore(k, r) :
        /\ ~IsImported(k, Representative(k, u))
        /\ SameAttributes(k, Representative(k, u), r)
        /\ \A g \in EarlierUsed(k, r) : Phys(k, g) = u => ~LifetimesOverlap(k, g, r)}

C7_GreedyFirstFit ==
    status = "compiled" =>
        \A k \in Kinds : \A r \in UsedTransients(k) :
            IF EligibleSlots(k, r) # {}
            THEN /\ Phys(k, r) \in EligibleSlots(k, r)
                 /\ \A u \in EligibleSlots(k, r) : Phys(k, r) <= u
            ELSE /\ Phys(k, r) = Cardinality(SlotsBefore(k, r))
                 /\ Representative(k, Phys(k, r)) = r

\* One resource had two slots to choose from, another had slots before it
\* and none that fits.
C7_Witness ==
    /\ status = "compiled"
    /\ \E k \in Kinds : \E r \in UsedTransients(k) :
           Cardinality(EligibleSlots(k, r)) >= 2
    /\ \E k \in Kinds : \E r \in UsedTransients(k) :
           SlotsBefore(k, r) # {} /\ EligibleSlots(k, r) = {}

-----------------------------------------------------------------------------
(* Validation, read from the state.  A failed compile() is one that ended  *)
(* in a fatal assertion: status holds the message of the assertion.        *)

CompileFailed == status \notin {"idle", "compiled", "injected"}

ReadHandle(k, j) == At(read_deps[k].read_list, j)

WriteHandle(k, j) == At(write_deps[k].write_list, j)

\* No pass declared before p has a write record of h: a read of h by p has
\* no write before it (the reads of a pass come before its own writes).
NoWriteBefore(k, p, h) ==
    \A q \in Passes : q < p => \A j \in WriteRange(k, q) : WriteHandle(k, j) # h

\* The read records of live passes that have no write before them.
ProducerLessReads ==
    {x \in Kinds \X Passes \X (0..(Len(read_deps.image.read_list) + Len(read_deps.buffer.read_list))) :
        /\ x[2] \in LivePasses
        /\ x[3] \in ReadRange(x[1], x[2])
        /\ NoWriteBefore(x[1], x[2], ReadHandle(x[1], x[3]))}

OutOfRangeInLivePass ==
    \E k \in Kinds : \E p \in LivePasses :
        \/ \E j \in ReadRange(k, p) : ReadHandle(k, j) >= Count(k)
        \/ \E j \in WriteRange(k, p) : WriteHandle(k, j) >= Count(k)

OutputsDeclared == output_table.image # <<>> \/ output_table.buffer # <<>>

\* A live pass reads an existing non-imported resource that nothing wrote before.
TransientReadBeforeWrite ==
    \E x \in ProducerLessReads :
        /\ ReadHandle(x[1], x[3]) < Count(x[1])
        /\ ~IsImported(x[1], ReadHandle(x[1], x[3]))

\* Every producer-less read of a live pass is of an imported resource.
OnlyImportedProducerLess ==
    \A x \in ProducerLessReads :
        /\ ReadHandle(x[1], x[3]) < Count(x[1])
        /\ IsImported(x[1], ReadHandle(x[1], x[3]))

DeclaredOutputs(k) == SeqElems(output_table[k])

Written(k, h) ==
    \E j \in 0..(Len(write_deps[k].write_list) - 1) : WriteHandle(k, j) = h

ImportedSlotsExclusive ==
    \A k \in Kinds : \A h \in Resources(k) :
        (Used(k, h) /\ IsImported(k, h)) =>
            /\ Phys(k, h) # invalid_resource
            /\ \A g \in Resources(k) : g # h => ~SameSlot(k, g, h)

(* C8: compile() fails whenever a live pass reads a non-imported resource  *)
(* that no write precedes; and compile() succeeds when the only            *)
(* producer-less reads in live passes are of imported resources, each used *)
(* imported resource and each declared output then being alone on its      *)
(* physical slot.  The success half is taken in the graphs where it can    *)
(* apply: an output is declared, every handle of a live pass is in range,  *)
(* and some live pass has a producer-less read.                            *)

C8_ReadBeforeWriteContract ==
    /\ (status # "idle" /\ TransientReadBeforeWrite) => CompileFailed
    /\ (status # "idle" /\ OutputsDeclared /\ ~OutOfRangeInLivePass
          /\ ProducerLessReads # {} /\ OnlyImportedProducerLess) =>
            /\ status = "compiled"
            /\ ImportedSlotsExclusive
            /\ \A k \in Kinds : \A h \in DeclaredOutputs(k) :
                   /\ Phys(k, h) # invalid_resource
                   /\ \A g \in Resources(k) : g # h => ~SameSlot(k, g, h)

(* What the code keeps of C8: the failure half as it stands, and in the    *)
(* success half each used imported resource alone on its slot and each     *)
(* written declared output on a slot that no imported resource is on,      *)
(* other non-imported resources of disjoint lifetime not excluded.         *)

C8_KeptPart ==
    /\ (status # "idle" /\ TransientReadBeforeWrite) => CompileFailed
    /\ (status # "idle" /\ OutputsDeclared /\ ~OutOfRangeInLivePass
          /\ OnlyImportedProducerLess) =>
            /\ status = "compiled"
            /\ ImportedSlotsExclusive
            /\ \A k \in Kinds : \A h \in DeclaredOutputs(k) :
                   Written(k, h) =>
                       /\ Phys(k, h) # invalid_resource
                       /\ \A g \in Resources(k) :
                              (g # h /\ IsImported(k, g)) => ~SameSlot(k, g, h)

\* A successful compile() in which a live pass reads an imported resource
\* that nothing wrote, and a declared output shares its slot.
C8_KeptPartReached ==
    /\ status = "compiled"
    /\ ProducerLessReads # {}
    /\ \E k \in Kinds : \E h \in DeclaredOutputs(k) : \E g \in Resources(k) :
           g # h /\ SameSlot(k, g, h)

(* C9: compile() fails whenever a live pass has a read or write record     *)
(* whose handle is greater than or equal to the number of resources of     *)
(* that kind; read_* and write_* take such a handle during setup without   *)
(* failing: the record is in the dependency list when validation runs.     *)

OutOfRangeCalls ==
    {x \in Passes \X (1..4) :
        /\ x[2] <= Len(At(graph.setup_funcs, x[1]))
        /\ At(graph.setup_funcs, x[1])[x[2]].op \in {"read", "write"}
        /\ ~At(graph.setup_funcs, x[1])[x[2]].res.local
        /\ At(graph.setup_funcs, x[1])[x[2]].res.value
             >= Count(At(graph.setup_funcs, x[1])[x[2]].kind)}

Recorded(p, c) ==
    IF c.op = "read"
    THEN \E j \in ReadRange(c.kind, p) : ReadHandle(c.kind, j) = c.res.value
    ELSE \E j \in WriteRange(c.kind, p) : WriteHandle(c.kind, j) = c.res.value

C9_OutOfRangeHandleFails ==
    status # "idle" =>
        /\ OutOfRangeInLivePass => CompileFailed
        /\ \A x \in OutOfRangeCalls : Recorded(x[1], At(graph.setup_funcs, x[1])[x[2]])

\* A live pass with an out-of-range write record and reads that are all
\* legal: the failure is that of the write.
C9_Witness ==
    /\ CompileFailed
    /\ \E k \in Kinds : \E p \in LivePasses : \E j \in WriteRange(k, p) :
           WriteHandle(k, j) >= Count(k)
    /\ \A k \in Kinds : \A p \in LivePasses : \A j \in ReadRange(k, p) :
           ReadHandle(k, j) < Count(k)
    /\ ~TransientReadBeforeWrite

(* C10: compile() fails whenever, after all setup callbacks have run,      *)
(* neither an image output nor a buffer output has been declared, whatever *)
(* passes and dependencies exist.                                          *)

CulledPasses == Passes \ LivePasses

\* A culled pass has an out-of-range record, or reads an existing
\* non-imported resource that nothing wrote before.
FaultInCulledPass ==
    \E k \in Kinds : \E p \in CulledPasses :
        \/ \E j \in ReadRange(k, p) : ReadHandle(k, j) >= Count(k)
        \/ \E j \in WriteRange(k, p) : WriteHandle(k, j) >= Count(k)
        \/ \E j \in ReadRange(k, p) :
               /\ ReadHandle(k, j) < Count(k)
               /\ ~IsImported(k, ReadHandle(k, j))
               /\ NoWriteBefore(k, p, ReadHandle(k, j))

C11_CulledPassesNotValidated ==
    (status # "idle" /\ OutputsDeclared /\ ~OutOfRangeInLivePass
       /\ ~TransientReadBeforeWrite) => status = "compiled"

\* A successful compile() of a graph with a live pass and a culled pass
\* that has an out-of-range record or a read before any write.
C11_Witness ==
    /\ status = "compiled"
    /\ FaultInCulledPass
    /\ LivePasses # {}

-----------------------------------------------------------------------------
(* The DAG, read from the state.                                           *)

\* The adjacency range of pass u in the CSR arrays, as a sequence.
AdjacencyOf(u) ==
    [n \in 1..(At(dag.adjacency_begins, u + 1) - At(dag.adjacency_begins, u)) |->
        At(dag.adjacency_list, At(dag.adjacency_begins, u) + n - 1)]

Successors(u) == {c \in Passes : ReadEdge(u, c)}

Predecessors(v) == {u \in Passes : ReadEdge(u, v)}

\* A write record of pass p on a resource an earlier pass wrote, which p
\* does not read.
OverwritesUnread(p) ==
    \E k \in Kinds : \E j \in WriteRange(k, p) :
        /\ WriteHandle(k, j) < Count(k)
        /\ ~NoWriteBefore(k, p, WriteHandle(k, j))
        /\ \A i \in ReadRange(k, p) : ReadHandle(k, i) # WriteHandle(k, j)

(* C12: the DAG built by compile() has exactly the edges P -> C with C     *)
(* live, P live, P # C and P the producer of a version one of C's read     *)
(* records is paired with; each edge is once in the adjacency, every       *)
(* adjacency range ascends, in_degrees and out_degrees count the distinct  *)
(* predecessors and successors, and writes alone make no edge.             *)

C12_DagEdgeSet ==
    status = "compiled" =>
        /\ Len(dag.adjacency_begins) = PassCount + 1
        /\ At(dag.adjacency_begins, 0) = 0
        /\ At(dag.adjacency_begins, PassCount) = Len(dag.adjacency_list)
        /\ \A u \in Passes :
               /\ SeqElems(AdjacencyOf(u)) = Successors(u)
               /\ \A n \in 1..(Len(AdjacencyOf(u)) - 1) :
                      AdjacencyOf(u)[n] < AdjacencyOf(u)[n + 1]
               /\ At(dag.out_degrees, u) = Cardinality(Successors(u))
               /\ At(dag.in_degrees, u) = Cardinality(Predecessors(u))

\* A live pass has two read records produced by one pass, and a live pass
\* overwrites an earlier write it does not read and has no predecessor.
C12_Witness ==
    /\ status = "compiled"
    /\ \E c \in LivePasses : \E k1 \in Kinds : \E k2 \in Kinds :
         \E i \in ReadRange(k1, c) : \E j \in ReadRange(k2, c) :
           /\ <<k1, i>> # <<k2, j>>
           /\ At(ver_read_handles[k1], i) # invalid_resource_version
           /\ At(ver_read_handles[k2], j) # invalid_resource_version
           /\ RecordedProducer(k1, At(ver_read_handles[k1], i))
                = RecordedProducer(k2, At(ver_read_handles[k2], j))
    /\ \E p \in LivePasses : OverwritesUnread(p) /\ Predecessors(p) = {}

-----------------------------------------------------------------------------
(* Cycle detection, read from dag and active_pass_flags as they stand.     *)

FlaggedPasses == 0..(Len(active_pass_flags) - 1)

ActiveFlagged == {p \in FlaggedPasses : At(active_pass_flags, p)}

\* in_degrees has one entry per pass, adjacency_begins one more, the begins
\* ascend from 0 to the length of adjacency_list, every entry is a pass and
\* no range holds an entry twice.
DagWellShaped ==
    /\ Len(dag.in_degrees) = Len(active_pass_flags)
    /\ Len(dag.adjacency_begins) = Len(active_pass_flags) + 1
    /\ At(dag.adjacency_begins, 0) = 0
    /\ At(dag.adjacency_begins, Len(active_pass_flags)) = Len(dag.adjacency_list)
    /\ \A u \in FlaggedPasses :
           /\ At(dag.adjacency_begins, u) <= At(dag.adjacency_begins, u + 1)
           /\ \A i \in At(dag.adjacency_begins, u)..(At(dag.adjacency_begins, u + 1) - 1) :
                  /\ At(dag.adjacency_list, i) \in FlaggedPasses
                  /\ \A j \in At(dag.adjacency_begins, u)..(At(dag.adjacency_begins, u + 1) - 1) :
                         i # j => At(dag.adjacency_list, i) # At(dag.adjacency_list, j)

\* The edges of the arrays that join two active passes.
ActiveEdges ==
    {e \in ActiveFlagged \X ActiveFlagged :
        \E i \in At(dag.adjacency_begins, e[1])..(At(dag.adjacency_begins, e[1] + 1) - 1) :
            At(dag.adjacency_list, i) = e[2]}

InDegreesCountActiveEdges ==
    \A v \in ActiveFlagged :
        At(dag.in_degrees, v) = Cardinality({u \in ActiveFlagged : <<u, v>> \in ActiveEdges})

\* A finite graph has a cycle exactly when some non-empty set of its nodes
\* gives each member a predecessor inside the set.
ActiveSubgraphHasCycle ==
    \E C \in SUBSET ActiveFlagged :
        /\ C # {}
        /\ \A v \in C : \E u \in C : <<u, v>> \in ActiveEdges

CycleMessage == "Error: Cycle detected in render graph!"

(* C13: on well-shaped DAG arrays whose in-degrees count the edges between *)
(* active passes, assert_no_cycles fails exactly when the subgraph of the  *)
(* active passes has a cycle; the check that ends compile()'s Kahn loop     *)
(* decides the same.                                                       *)

C13_CycleDetectedExactly ==
    /\ (cycle_check # "none" /\ DagWellShaped /\ InDegreesCountActiveEdges) =>
           /\ cycle_check \in {"ok", CycleMessage}
           /\ cycle_check = CycleMessage <=> ActiveSubgraphHasCycle
    /\ (status \in {"compiled", CycleMessage} /\ DagWellShaped
          /\ InDegreesCountActiveEdges) =>
           (status = CycleMessage <=> ActiveSubgraphHasCycle)

\* The edges 0 -> 1 and 1 -> 0 over two active passes: the check has failed.
C13_Witness ==
    /\ cycle_check = CycleMessage
    /\ active_pass_flags = <<TRUE, TRUE>>
    /\ dag.adjacency_begins = <<0, 1, 2>>
    /\ dag.adjacency_list = <<1, 0>>
    /\ dag.in_degrees = <<1, 1>>

-----------------------------------------------------------------------------
(* C14: after a successful compile(), for every resource read or written   *)
(* by a live pass, first_used is the least and last_used the greatest      *)
(* schedule index (position in sorted_passes, from 0) of the live passes   *)
(* that read or write it, so first_used <= last_used; a resource no live   *)
(* pass touches keeps the sentinel first_used.                             *)

Touches(k, p, h) ==
    \/ \E j \in ReadRange(k, p) : ReadHandle(k, j) = h
    \/ \E j \in WriteRange(k, p) : WriteHandle(k, j) = h

\* The schedule indices of the live passes that touch h.
TouchIndices(k, h) ==
    {i - 1 : i \in {n \in 1..Len(sorted_passes) :
                      sorted_passes[n] \in LivePasses /\ Touches(k, sorted_passes[n], h)}}

C14_LifetimeIsSpanOfUses ==
    status = "compiled" =>
        \A k \in Kinds : \A h \in Resources(k) :
            IF TouchIndices(k, h) # {}
            THEN /\ FirstUse(k, h) \in TouchIndices(k, h)
                 /\ LastUse(k, h) \in TouchIndices(k, h)
                 /\ \A i \in TouchIndices(k, h) : FirstUse(k, h) <= i /\ i <= LastUse(k, h)
                 /\ FirstUse(k, h) <= LastUse(k, h)
            ELSE FirstUse(k, h) = invalid_pass

\* A resource used over two schedule indices that are not the handles of
\* the passes using it, beside a resource only a culled pass touches.
C14_Witness ==
    /\ status = "compiled"
    /\ \E k \in Kinds : \E h \in Resources(k) :
           /\ Cardinality(TouchIndices(k, h)) >= 2
           /\ \E i \in TouchIndices(k, h) : ~Touches(k, i, h)
    /\ \E k \in Kinds : \E h \in Resources(k) : \E p \in Passes :
           Touches(k, p, h) /\ TouchIndices(k, h) = {}
-----------------------------------------------------------------------------
(* Versions and the producer index, read from the state.  Steps B and C    *)
(* have run in every state whose compile() got past the setup callbacks.   *)

Versioned == status \notin {"idle", "injected", "declare_output: resource out of range"}

ReadRecords(k) == 0..(Len(read_deps[k].read_list) - 1)

WriteRecords(k) == 0..(Len(write_deps[k].write_list) - 1)

WritesTo(k, h) == {j \in WriteRecords(k) : WriteHandle(k, j) = h}

OwnerOfWrite(k, j) == CHOOSE p \in Passes : j \in WriteRange(k, p)

\* Declaration order of passes, call order within a pass.
EarlierWrite(k, i, j) ==
    \/ OwnerOfWrite(k, i) < OwnerOfWrite(k, j)
    \/ OwnerOfWrite(k, i) = OwnerOfWrite(k, j) /\ i < j

\* The number of writes to the handle of record j that come before it.
WriteRank(k, j) ==
    Cardinality({i \in WritesTo(k, WriteHandle(k, j)) : EarlierWrite(k, i, j)})

VersionCount(k, h) == Cardinality(WritesTo(k, h))

Offsets(k) == producer_lookup_table[k].version_offsets

Producers(k) == producer_lookup_table[k].version_producers

\* C15: once the producer index is built, offsets has one entry per handle
\* and one more, offsets[h + 1] - offsets[h] is the number of writes to h,
\* producers[offsets[h] + v] is the pass of the one write record that was
\* given version v of h, which is the (v + 1)-th write to h in declaration
\* order, and no entry of producers is the invalid-pass sentinel.
C15_ProducerIndexComplete ==
    Versioned =>
        \A k \in Kinds :
            /\ Len(Offsets(k)) = Count(k) + 1
            /\ Len(Producers(k)) = At(Offsets(k), Count(k))
            /\ \A n \in 1..Len(Producers(k)) : Producers(k)[n] # invalid_pass
            /\ \A h \in Resources(k) :
                   /\ At(Offsets(k), h + 1) - At(Offsets(k), h) = VersionCount(k, h)
                   /\ \A v \in 0..(VersionCount(k, h) - 1) :
                          \E j \in WritesTo(k, h) :
                              /\ WriteRank(k, j) = v
                              /\ At(ver_write_handles[k], j) = pack(h, v)
                              /\ \A i \in WritesTo(k, h) :
                                     At(ver_write_handles[k], i) = pack(h, v) => i = j
                              /\ At(Producers(k), At(Offsets(k), h) + v) = OwnerOfWrite(k, j)

\* A handle with three versions made by more than one pass, and a written
\* handle whose range of the producer array starts behind them.
C15_Witness ==
    /\ Versioned
    /\ \E k \in Kinds : \E h, g \in Resources(k) :
           /\ VersionCount(k, h) >= 3
           /\ \E i, j \in WritesTo(k, h) : OwnerOfWrite(k, i) # OwnerOfWrite(k, j)
           /\ At(Offsets(k), g) >= 3
           /\ WritesTo(k, g) # {}

\* C16: latest[h] is pack(h, version_count(h) - 1) for a handle with a
\* write record and the all-ones sentinel for a handle with none.
C16_LatestVersion ==
    Versioned =>
        \A k \in Kinds :
            /\ Len(producer_lookup_table[k].latest) = Count(k)
            /\ \A h \in Resources(k) :
                   At(producer_lookup_table[k].latest, h) =
                       IF WritesTo(k, h) # {}
                       THEN pack(h, VersionCount(k, h) - 1)
                       ELSE invalid_resource_version

\* One handle written twice or more and another never written.
C16_Witness ==
    /\ Versioned
    /\ \E k \in Kinds : \E h, g \in Resources(k) :
           /\ VersionCount(k, h) >= 2
           /\ WritesTo(k, g) = {}

WritesOfPassTo(k, p, h) == {j \in WriteRange(k, p) : WriteHandle(k, j) = h}

\* C18: the write records to an in-range handle h get, in declaration
\* order, the versions 0, 1, 2, ...: the n-th gets n - 1, so the versions
\* of h are 0..version_count(h) - 1 without gap or repeat, and the writes
\* to h inside one pass get consecutive versions, all produced by it.
C18_WriteVersionsConsecutive ==
    Versioned =>
        \A k \in Kinds : \A h \in Resources(k) :
            /\ \A j \in WritesTo(k, h) :
                   At(ver_write_handles[k], j) = pack(h, WriteRank(k, j))
            /\ {WriteRank(k, j) : j \in WritesTo(k, h)} = 0..(VersionCount(k, h) - 1)
            /\ \A p \in Passes :
                   LET own == WritesOfPassTo(k, p, h)
                   IN  \A i, j \in own :
                           /\ i < j =>
                                  unpack_to_version(At(ver_write_handles[k], j))
                                      - unpack_to_version(At(ver_write_handles[k], i)) = j - i
                           /\ At(Producers(k),
                                 At(Offsets(k), h)
                                     + unpack_to_version(At(ver_write_handles[k], j))) = p

\* A pass that writes twice a handle an earlier pass has written.
C18_Witness ==
    /\ Versioned
    /\ \E k \in Kinds : \E h \in Resources(k) : \E p \in Passes :
           /\ Cardinality(WritesOfPassTo(k, p, h)) >= 2
           /\ \E j \in WritesOfPassTo(k, p, h) : WriteRank(k, j) >= 2
           /\ \E j \in WritesTo(k, h) : OwnerOfWrite(k, j) < p
-----------------------------------------------------------------------------
(* The barrier plan, read from the state.  A touch is a scheduled pass     *)
(* together with a logical resource it has a read or write record of.      *)

TouchedAt(k, n) == {h \in Resources(k) : Touches(k, sorted_passes[n], h)}

TouchesOfSlot(k, n, S) == {h \in TouchedAt(k, n) : Phys(k, h) = S}

EarlierTouchPositions(k, n, S) == {m \in 1..(n - 1) : TouchesOfSlot(k, m, S) # {}}

\* The schedule position of the most recent touch of slot S before position n.
PrevPosition(k, n, S) ==
    CHOOSE m \in EarlierTouchPositions(k, n, S) :
        \A x \in EarlierTouchPositions(k, n, S) : x <= m

\* The logical resources of that touch; no touch, no resource.
PrevLogicals(k, n, S) ==
    IF EarlierTouchPositions(k, n, S) = {} THEN {}
    ELSE TouchesOfSlot(k, PrevPosition(k, n, S), S)

OpIndices == 0..(Len(per_pass_barriers.types) - 1)

Slice(p) ==
    {i \in OpIndices :
        /\ At(per_pass_barriers.pass_begins, p) <= i
        /\ i < At(per_pass_barriers.pass_begins, p) + At(per_pass_barriers.pass_lengths, p)}

OpsFor(p, type, k, L) ==
    {i \in Slice(p) : /\ At(per_pass_barriers.types, i) = type
                      /\ At(per_pass_barriers.kinds, i) = k
                      /\ At(per_pass_barriers.logicals, i) = L}

\* Every op of a type sits in the slice of a scheduled pass that touches
\* the op's logical resource.
OpsBelongToTouches(type) ==
    \A i \in OpIndices :
        At(per_pass_barriers.types, i) = type =>
            \E n \in 1..Len(sorted_passes) :
                /\ i \in Slice(sorted_passes[n])
                /\ At(per_pass_barriers.logicals, i) \in TouchedAt(At(per_pass_barriers.kinds, i), n)

\* C19: for the touch of L on slot S by a scheduled pass, the pass's slice
\* holds an aliasing op for L exactly when S was touched earlier in the
\* schedule and the most recent earlier touch was by a resource K other
\* than L; there is one such op, with physical = S and prev_logical = K.
C19_AliasingOpOnReuseByOther ==
    status = "compiled" =>
        /\ OpsBelongToTouches("aliasing")
        /\ \A k \in Kinds : \A n \in 1..Len(sorted_passes) : \A L \in TouchedAt(k, n) :
               LET prev == PrevLogicals(k, n, Phys(k, L))
                   ops  == OpsFor(sorted_passes[n], "aliasing", k, L)
               IN  /\ Cardinality(prev) <= 1
                   /\ IF prev # {} /\ L \notin prev
                      THEN /\ Cardinality(ops) = 1
                           /\ \A i \in ops :
                                  /\ At(per_pass_barriers.physicals, i) = Phys(k, L)
                                  /\ At(per_pass_barriers.prev_logicals, i) \in prev
                      ELSE ops = {}

\* An aliasing op in the plan, and a touch of a slot whose previous touch
\* was by the same resource.
C19_Witness ==
    /\ status = "compiled"
    /\ \E i \in OpIndices : At(per_pass_barriers.types, i) = "aliasing"
    /\ \E k \in Kinds : \E n \in 1..Len(sorted_passes) : \E L \in TouchedAt(k, n) :
           PrevLogicals(k, n, Phys(k, L)) = {L}

Bits(n) == {b \in 0..(WordBits - 1) : (n \div (2 ^ b)) % 2 = 1}

ReadsOf(k, p, L) == {j \in ReadRange(k, p) : ReadHandle(k, j) = L}

\* The usage bits of a touch: the bits of every record of L in pass p.
TouchBits(k, p, L) ==
    UNION ({Bits(At(read_deps[k].usage_bits, j)) : j \in ReadsOf(k, p, L)}
           \cup {Bits(At(write_deps[k].usage_bits, j)) : j \in WritesOfPassTo(k, p, L)})

TouchAccess(k, p, L) ==
    IF ReadsOf(k, p, L) # {} /\ WritesOfPassTo(k, p, L) # {} THEN "read_write"
    ELSE IF WritesOfPassTo(k, p, L) # {} THEN "write"
    ELSE "read"

\* C20: for the touch of L on slot S by a scheduled pass, the slice holds a
\* transition op for L exactly when S was touched earlier and the previous
\* touch's usage bits or access differ from this touch's merged usage or
\* access; the op's src side is the previous touch, its dst side this
\* touch, both domains are any; the first touch of a slot emits no op.
C20_TransitionOnStateChange ==
    status = "compiled" =>
        /\ OpsBelongToTouches("transition")
        /\ \A k \in Kinds : \A n \in 1..Len(sorted_passes) : \A L \in TouchedAt(k, n) :
               LET p     == sorted_passes[n]
                   S     == Phys(k, L)
                   prev  == PrevLogicals(k, n, S)
                   trans == OpsFor(p, "transition", k, L)
               IN  IF prev = {}
                   THEN \A i \in Slice(p) :
                            At(per_pass_barriers.kinds, i) = k =>
                                /\ At(per_pass_barriers.logicals, i) # L
                                /\ At(per_pass_barriers.physicals, i) # S
                   ELSE \A K \in prev :
                            LET q == sorted_passes[PrevPosition(k, n, S)]
                            IN  IF \/ TouchBits(k, q, K) # TouchBits(k, p, L)
                                   \/ TouchAccess(k, q, K) # TouchAccess(k, p, L)
                                THEN /\ Cardinality(trans) = 1
                                     /\ \A i \in trans :
                                            /\ At(per_pass_barriers.physicals, i) = S
                                            /\ At(per_pass_barriers.src_accesses, i)
                                                   = TouchAccess(k, q, K)
                                            /\ At(per_pass_barriers.dst_accesses, i)
                                                   = TouchAccess(k, p, L)
                                            /\ Bits(At(per_pass_barriers.src_usage_bits, i))
                                                   = TouchBits(k, q, K)
                                            /\ Bits(At(per_pass_barriers.dst_usage_bits, i))
                                                   = TouchBits(k, p, L)
                                            /\ At(per_pass_barriers.src_domains, i) = "any"
                                            /\ At(per_pass_barriers.dst_domains, i) = "any"
                                ELSE trans = {}

\* A transition between equal usage bits, where the access alone changed,
\* and a touch that repeats the previous touch's state and gets none.
C20_Witness ==
    /\ status = "compiled"
    /\ \E i \in OpIndices :
           /\ At(per_pass_barriers.types, i) = "transition"
           /\ At(per_pass_barriers.src_usage_bits, i) = At(per_pass_barriers.dst_usage_bits, i)
    /\ \E k \in Kinds : \E n \in 1..Len(sorted_passes) : \E L \in TouchedAt(k, n) :
           /\ PrevLogicals(k, n, Phys(k, L)) # {}
           /\ OpsFor(sorted_passes[n], "transition", k, L) = {}
StorageBit(k) == IF k = "image" THEN IMAGE_STORAGE ELSE BUFFER_STORAGE_BUFFER

\* C21: for the touch of L on slot S by a scheduled pass, the slice holds a
\* UAV op for L exactly when S was touched earlier, the previous touch's
\* access was write or read_write, and this touch's merged usage has the
\* storage bit of its kind; a pass reading as storage a buffer the pass
\* before it wrote as storage gets one.
C21_UavAfterWriteOnStorage ==
    status = "compiled" =>
        /\ OpsBelongToTouches("uav")
        /\ \A k \in Kinds : \A n \in 1..Len(sorted_passes) : \A L \in TouchedAt(k, n) :
               LET p    == sorted_passes[n]
                   S    == Phys(k, L)
                   prev == PrevLogicals(k, n, S)
                   uavs == OpsFor(p, "uav", k, L)
               IN  IF /\ prev # {}
                      /\ \A K \in prev :
                             TouchAccess(k, sorted_passes[PrevPosition(k, n, S)], K)
                                 \in {"write", "read_write"}
                      /\ Bits(StorageBit(k)) \subseteq TouchBits(k, p, L)
                   THEN /\ Cardinality(uavs) = 1
                        /\ \A i \in uavs : At(per_pass_barriers.physicals, i) = S
                   ELSE uavs = {}

\* A storage buffer written by one scheduled pass and read as storage by
\* the next has a UAV op in the reader's slice, and some touch with the
\* storage bit follows a pure read and has none.
C21_Witness ==
    /\ status = "compiled"
    /\ \E n \in 2..Len(sorted_passes) : \E L \in TouchedAt("buffer", n) :
           /\ L \in TouchedAt("buffer", n - 1)
           /\ TouchAccess("buffer", sorted_passes[n - 1], L) = "write"
           /\ TouchAccess("buffer", sorted_passes[n], L) = "read"
           /\ OpsFor(sorted_passes[n], "uav", "buffer", L) # {}
    /\ \E k \in Kinds : \E n \in 1..Len(sorted_passes) : \E L \in TouchedAt(k, n) :
           /\ PrevLogicals(k, n, Phys(k, L)) # {}
           /\ Bits(StorageBit(k)) \subseteq TouchBits(k, sorted_passes[n], L)
           /\ OpsFor(sorted_passes[n], "uav", k, L) = {}
\* Op i - 1 is in the same slice as op i and is a transition op for the
\* same kind, logical resource and physical slot.
PrecededByOwnTransition(p, i) ==
    /\ i - 1 \in Slice(p)
    /\ At(per_pass_barriers.types, i - 1) = "transition"
    /\ At(per_pass_barriers.kinds, i - 1) = At(per_pass_barriers.kinds, i)
    /\ At(per_pass_barriers.logicals, i - 1) = At(per_pass_barriers.logicals, i)
    /\ At(per_pass_barriers.physicals, i - 1) = At(per_pass_barriers.physicals, i)

UavOpsOf(p) == {i \in Slice(p) : At(per_pass_barriers.types, i) = "uav"}

\* C22, as stated: every UAV op in a pass's slice is immediately preceded
\* in that slice by a transition op for the same kind, logical resource
\* and physical slot.
C22_UavPrecededByTransition ==
    status = "compiled" =>
        \A n \in 1..Len(sorted_passes) : \A i \in UavOpsOf(sorted_passes[n]) :
            PrecededByOwnTransition(sorted_passes[n], i)

\* The touch at schedule position n of L differs in usage bits or access
\* from the most recent earlier touch of its slot.
StateChanged(k, n, L) ==
    \E K \in PrevLogicals(k, n, Phys(k, L)) :
        LET q == sorted_passes[PrevPosition(k, n, Phys(k, L))]
        IN  \/ TouchBits(k, q, K) # TouchBits(k, sorted_passes[n], L)
            \/ TouchAccess(k, q, K) # TouchAccess(k, sorted_passes[n], L)

\* C22, amended: a UAV op is immediately preceded in its slice by a
\* transition op for the same kind, logical resource and physical slot
\* exactly when the touch changed usage bits or access; when the touch
\* repeats the previous touch's state the UAV op stands without any
\* transition op for its resource.
C22_UavFollowsTransitionIfAny ==
    status = "compiled" =>
        \A n \in 1..Len(sorted_passes) : \A i \in UavOpsOf(sorted_passes[n]) :
            LET p == sorted_passes[n]
                k == At(per_pass_barriers.kinds, i)
                L == At(per_pass_barriers.logicals, i)
            IN  /\ L \in TouchedAt(k, n)
                /\ IF StateChanged(k, n, L)
                   THEN PrecededByOwnTransition(p, i)
                   ELSE /\ ~PrecededByOwnTransition(p, i)
                        /\ OpsFor(p, "transition", k, L) = {}

\* A UAV op right behind its transition op, and a UAV op of a touch that
\* repeats the previous state, with no transition op.
C22_Witness ==
    /\ status = "compiled"
    /\ \E n, m \in 1..Len(sorted_passes) :
           /\ \E i \in UavOpsOf(sorted_passes[n]) :
                  PrecededByOwnTransition(sorted_passes[n], i)
           /\ \E j \in UavOpsOf(sorted_passes[m]) :
                  /\ ~StateChanged(At(per_pass_barriers.kinds, j), m,
                                   At(per_pass_barriers.logicals, j))
                  /\ ~PrecededByOwnTransition(sorted_passes[m], j)
BarrierOpTypes == {"transition", "uav", "aliasing"}

\* C23: the records of a scheduled pass for one logical resource of a kind
\* are merged into one touch, whose usage bits are the OR of the usage of
\* every such record and whose access is read_write with both a read and
\* a write record, write with writes only, read with reads only; the
\* pass's slice holds at most one op of each type, so at most one
\* transition op, per kind and logical resource, and that op's dst side is
\* the merged touch.
C23_OneMergedTouchPerResource ==
    status = "compiled" =>
        \A k \in Kinds : \A n \in 1..Len(sorted_passes) :
            LET p == sorted_passes[n]
                T == PassTouches(read_deps[k], write_deps[k], p)
            IN  /\ T.keys = TouchedAt(k, n)
                /\ \A L \in TouchedAt(k, n) :
                       /\ Bits(T.usage[L]) = TouchBits(k, p, L)
                       /\ T.access[L] = TouchAccess(k, p, L)
                       /\ \A type \in BarrierOpTypes :
                              Cardinality(OpsFor(p, type, k, L)) <= 1
                       /\ \A i \in OpsFor(p, "transition", k, L) :
                              /\ Bits(At(per_pass_barriers.dst_usage_bits, i))
                                     = TouchBits(k, p, L)
                              /\ At(per_pass_barriers.dst_accesses, i)
                                     = TouchAccess(k, p, L)

\* A pass with two reads of an image, as sampled and as storage, and a
\* write of it: its one transition op goes to read_write with both bits.
C23_Witness ==
    /\ status = "compiled"
    /\ \E n \in 1..Len(sorted_passes) : \E L \in TouchedAt("image", n) :
           /\ Cardinality(ReadsOf("image", sorted_passes[n], L)) >= 2
           /\ WritesOfPassTo("image", sorted_passes[n], L) # {}
           /\ \E i \in OpsFor(sorted_passes[n], "transition", "image", L) :
                  /\ At(per_pass_barriers.dst_accesses, i) = "read_write"
                  /\ Bits(At(per_pass_barriers.dst_usage_bits, i))
                         = Bits(IMAGE_SAMPLED) \cup Bits(IMAGE_STORAGE)
SliceBegin(p) == At(per_pass_barriers.pass_begins, p)

SliceEnd(p) == At(per_pass_barriers.pass_begins, p) + At(per_pass_barriers.pass_lengths, p)

\* C24, as stated: the flat plan is laid out in schedule order; when p
\* precedes q in sorted_passes, p's range ends at or before q's begins.
C24_PlanInScheduleOrder ==
    status = "compiled" =>
        \A n, m \in 1..Len(sorted_passes) :
            n < m => SliceEnd(sorted_passes[n]) <= SliceBegin(sorted_passes[m])

\* C24, amended: the flat plan is laid out in pass-handle (declaration)
\* order; when handle p is below handle q, p's range ends at or before
\* q's begins, whatever their places in the schedule, and the range of
\* handle p + 1 begins where that of p ends.
C24_PlanInPassHandleOrder ==
    status = "compiled" =>
        /\ \A p, q \in Passes : p < q => SliceEnd(p) <= SliceBegin(q)
        /\ \A p \in Passes : SliceEnd(p) = SliceBegin(p + 1)

\* A pass scheduled ahead of a pass with a lower handle, the later one
\* holding ops: its ops lie at lower indices than the earlier pass's range.
C24_Witness ==
    /\ status = "compiled"
    /\ \E n, m \in 1..Len(sorted_passes) :
           /\ n < m
           /\ sorted_passes[n] > sorted_passes[m]
           /\ Slice(sorted_passes[m]) # {}
           /\ SliceEnd(sorted_passes[m]) <= SliceBegin(sorted_passes[n])
\* C25: in the plan after compile(), a pass that is not in the schedule
\* has length 0; pass_begins has pass_count + 1 entries and never
\* decreases; the ranges of the passes are pairwise disjoint and cover the
\* op arrays exactly; pass_begins[pass_count] is the number of ops, which
\* is the length of every op array.
C25_PlanShape ==
    status = "compiled" =>
        LET plan == per_pass_barriers
        IN  /\ Len(plan.pass_begins) = PassCount + 1
            /\ Len(plan.pass_lengths) = PassCount
            /\ \A p \in Passes : p \notin SeqElems(sorted_passes) => At(plan.pass_lengths, p) = 0
            /\ \A p \in Passes : At(plan.pass_begins, p) <= At(plan.pass_begins, p + 1)
            /\ \A p, q \in Passes : p # q => Slice(p) \cap Slice(q) = {}
            /\ UNION {Slice(p) : p \in Passes} = OpIndices
            /\ \A p \in Passes :
                   Cardinality(Slice(p)) = At(plan.pass_lengths, p)
            /\ At(plan.pass_begins, PassCount) = Len(plan.types)
            /\ \A n \in {Len(plan.kinds), Len(plan.logicals), Len(plan.physicals),
                         Len(plan.src_domains), Len(plan.dst_domains),
                         Len(plan.src_accesses), Len(plan.dst_accesses),
                         Len(plan.src_usage_bits), Len(plan.dst_usage_bits),
                         Len(plan.prev_logicals)} :
                   n = Len(plan.types)

\* A culled pass with an empty range ahead of a scheduled pass that holds
\* two ops or more.
C25_Witness ==
    /\ status = "compiled"
    /\ \E q, r \in Passes :
           /\ q < r
           /\ q \notin SeqElems(sorted_passes)
           /\ Cardinality(Slice(r)) >= 2
-----------------------------------------------------------------------------
(* compile() called again on the same system.                              *)

RECURSIVE AllCalls(_, _)
\* The calls of the callbacks 1..n, in the order compile() makes them.
AllCalls(funcs, n) == IF n = 0 THEN <<>> ELSE AllCalls(funcs, n - 1) \o funcs[n]

\* Every handle a callback passes is what a create call of that kind,
\* made earlier in the same compile(), returned.
OnlyReturnedHandles ==
    LET calls == AllCalls(graph.setup_funcs, Len(graph.setup_funcs))
    IN  \A j \in 1..Len(calls) :
            calls[j].op # "create" =>
                /\ calls[j].res.local
                /\ \E i \in 1..(j - 1) :
                       calls[i].op = "create" /\ calls[i].kind = calls[j].kind

SecondCompile ==
    /\ status = "compiled"
    /\ compile_calls' = compile_calls + 1
    /\ OnlyReturnedHandles

\* C26, as stated: a second compile() on the same system, callbacks using
\* only handles their create calls returned and no clear() in between,
\* leaves dependency lists, producer index, DAG, schedule, lifetimes,
\* physical mapping and barrier plan as the first call left them.
C26_CompileTwiceIdentical ==
    [][SecondCompile =>
          /\ read_deps' = read_deps
          /\ write_deps' = write_deps
          /\ producer_lookup_table' = producer_lookup_table
          /\ dag' = dag
          /\ sorted_passes' = sorted_passes
          /\ resource_lifetimes' = resource_lifetimes
          /\ physical_resource_metas' = physical_resource_metas
          /\ per_pass_barriers' = per_pass_barriers]_vars

\* What a second compile() does repeat: it succeeds, and the results
\* indexed by pass alone are those of the first call, while every meta
\* table has doubled.
C26_PassLevelResultsRepeat ==
    [][SecondCompile =>
          /\ status' = "compiled"
          /\ active_pass_flags' = active_pass_flags
          /\ dag' = dag
          /\ sorted_passes' = sorted_passes
          /\ \A k \in Kinds :
                 /\ ResourceCount(meta_table', k) = 2 * ResourceCount(meta_table, k)
                 /\ read_deps'[k].begins = read_deps[k].begins
                 /\ read_deps'[k].lengthes = read_deps[k].lengthes
                 /\ write_deps'[k].begins = write_deps[k].begins
                 /\ write_deps'[k].lengthes = write_deps[k].lengthes]_vars

\* Two successful compile() calls, callbacks using returned handles only,
\* on a graph that created a resource.
C26_Reached ==
    /\ status = "compiled"
    /\ compile_calls = MaxCompiles
    /\ OnlyReturnedHandles
    /\ \E k \in Kinds : ResourceCount(meta_table, k) > 0

-----------------------------------------------------------------------------
(* C27: the calls of execute().                                            *)

\* The calls a step has added to backend_calls.
NewCalls == SubSeq(backend_calls', Len(backend_calls) + 1, Len(backend_calls'))

IsApply(c) == c.call = "apply_barriers"

IsCallback(c) == c.call = "execute_func"

\* The calls of one execute() with a backend: the apply_barriers calls are
\* those of sorted_passes in order, each with the plan of the last compile;
\* a callback call comes right after the apply_barriers call of its pass;
\* the apply_barriers call of a pass is followed by the pass's callback
\* exactly when the callback holds a callable; no call names a culled pass.
CallsOfOneExecute(calls) ==
    /\ \A i \in 1..Len(calls) : IsApply(calls[i]) \/ IsCallback(calls[i])
    /\ LET applied == SelectSeq(calls, IsApply)
       IN  /\ Len(applied) = Len(sorted_passes)
           /\ \A i \in 1..Len(applied) :
                  /\ applied[i].pass = sorted_passes[i]
                  /\ applied[i].plan = per_pass_barriers
    /\ \A i \in 1..Len(calls) :
           IsCallback(calls[i]) =>
               /\ i > 1
               /\ IsApply(calls[i - 1])
               /\ calls[i - 1].pass = calls[i].pass
    /\ \A i \in 1..Len(calls) :
           IsApply(calls[i]) =>
               ((i < Len(calls) /\ IsCallback(calls[i + 1]))
                   <=> At(graph.execute_funcs, calls[i].pass) # "empty")
    /\ \A i \in 1..Len(calls) : At(active_pass_flags, calls[i].pass)

\* C27: execute() with a backend calls, for each pass in sorted_passes
\* order, apply_barriers(pass, plan) and then the pass's execute callback if
\* it holds a callable; a pass with an empty callback gets apply_barriers
\* alone; a culled pass gets neither call; without a backend execute() makes
\* no call at all.
C27_ExecuteCalls ==
    [][execute_calls' # execute_calls =>
          IF backend = "null"
          THEN NewCalls = <<>>
          ELSE CallsOfOneExecute(NewCalls)]_vars

\* execute() has run with a backend on a compiled graph that holds a culled
\* pass, a scheduled pass with an empty callback and a scheduled pass with a
\* callable one, and has run without a backend as well.
C27_Witness ==
    /\ status = "compiled"
    /\ execute_calls = 2
    /\ backend = "null"
    /\ \E p \in Passes : ~At(active_pass_flags, p)
    /\ \E i, j \in 1..Len(backend_calls) :
           /\ IsApply(backend_calls[i])
           /\ At(graph.execute_funcs, backend_calls[i].pass) = "empty"
           /\ IsCallback(backend_calls[j])
    /\ Len(sorted_passes) = 2
    /\ Len(SelectSeq(backend_calls, IsApply)) = 2

-----------------------------------------------------------------------------
(* C28: declaring an output keeps no pass alive by itself.                 *)

\* The passes whose setup callback declares an output.
DeclaringPasses ==
    {p \in Passes : \E j \in 1..Len(graph.setup_funcs[p + 1]) :
                        graph.setup_funcs[p + 1][j].op = "declare"}

\* The passes that made the last write to a declared output: the owner of
\* the write record that no write to the same handle follows.
LatestWriters ==
    {OwnerOfWrite(x[1], x[2]) :
        x \in {y \in Kinds \X (0..(Len(write_deps.image.write_list)
                                    + Len(write_deps.buffer.write_list))) :
                 /\ y[2] \in WriteRecords(y[1])
                 /\ WriteHandle(y[1], y[2]) \in DeclaredOutputs(y[1])
                 /\ \A i \in WritesTo(y[1], WriteHandle(y[1], y[2])) :
                        i = y[2] \/ EarlierWrite(y[1], i, y[2])}}

\* C28: a pass that declares an output, but neither made the last write to
\* a declared output nor wrote what is read on a chain of reads that leads
\* to such a writer, is culled; the passes kept are the last writers of the
\* declared outputs and the passes they read from, transitively.
C28_DeclaringPassNotKept ==
    Versioned =>
        /\ \A p \in DeclaringPasses :
               p \notin ReadClosure(LatestWriters) => ~Live(p)
        /\ \A p \in LivePasses : p \in ReadClosure(LatestWriters)
        /\ \A p \in LatestWriters : Live(p)

\* A compiled graph with a culled pass that reads and declares an image
\* whose producer is kept, and a culled pass that writes and declares an
\* image a later pass writes last.
C28_Witness ==
    /\ status = "compiled"
    /\ \E p \in DeclaringPasses :
           /\ ~Live(p)
           /\ ReadRange("image", p) # {}
           /\ \E q \in LivePasses : q \in ReadProducers(p)
    /\ \E p \in DeclaringPasses :
           /\ ~Live(p)
           /\ WriteRange("image", p) # {}

-----------------------------------------------------------------------------
(* C29: dead branches leave the rest of the plan as it was.                *)

\* The resources that feed a declared output: the declared outputs, and
\* what is read by a pass that writes a resource that feeds one.
RECURSIVE FeedsOutput(_)
FeedsOutput(S) ==
    LET T == S \cup {x \in Kinds \X (Resources("image") \cup Resources("buffer")) :
                       \E p \in Passes :
                           /\ \E j \in ReadRange(x[1], p) : ReadHandle(x[1], j) = x[2]
                           /\ \E y \in S : \E j \in WriteRange(y[1], p) :
                                  WriteHandle(y[1], j) = y[2]}
    IN  IF T = S THEN S ELSE FeedsOutput(T)

\* The passes m, m + 1, ... are a dead branch: none declares an output and
\* none writes a resource that feeds a declared output.
DeadBranch(m) ==
    \A p \in m..(PassCount - 1) :
        /\ p \notin DeclaringPasses
        /\ \A k \in Kinds : \A j \in WriteRange(k, p) :
               <<k, WriteHandle(k, j)>> \notin
                   FeedsOutput(UNION {{<<kk, h>> : h \in DeclaredOutputs(kk)} : kk \in Kinds})

\* The graph of the first m passes, and its compile on a fresh system.
WithoutBranch(m) ==
    CompileResult([passes        |-> SubSeq(graph.passes, 1, m),
                   setup_funcs   |-> SubSeq(graph.setup_funcs, 1, m),
                   execute_funcs |-> SubSeq(graph.execute_funcs, 1, m)],
                  EmptyMetaTable)

SuccessorsIn(d, u) ==
    {At(d.adjacency_list, j) :
        j \in At(d.adjacency_begins, u)..(At(d.adjacency_begins, u + 1) - 1)}

\* The plan of the state is plan B of the first m passes, with empty slices
\* for the passes after them.
SamePlan(B, m) ==
    /\ \A f \in DOMAIN B \ {"pass_begins", "pass_lengths"} : per_pass_barriers[f] = B[f]
    /\ \A p \in 0..(m - 1) :
           /\ At(per_pass_barriers.pass_begins, p) = At(B.pass_begins, p)
           /\ At(per_pass_barriers.pass_lengths, p) = At(B.pass_lengths, p)
    /\ \A p \in m..(PassCount - 1) : At(per_pass_barriers.pass_lengths, p) = 0

PlanUnaffected(m) ==
    LET O == WithoutBranch(m)
        n == [k \in Kinds |-> Len(O.setup.meta[k].names)]
    IN  /\ \A p \in m..(PassCount - 1) : ~Live(p)
        /\ \A p \in 0..(m - 1) :
               /\ Live(p) = At(O.cull.flags, p)
               /\ SuccessorsIn(dag, p) = SuccessorsIn(O.dag, p)
        /\ \A p \in m..(PassCount - 1) : SuccessorsIn(dag, p) = {}
        /\ sorted_passes = O.kahn.sorted
        /\ \A k \in Kinds : \A h \in 0..(n[k] - 1) :
               /\ FirstUse(k, h) = At(O.lifetimes[k].first_used, h)
               /\ LastUse(k, h) = At(O.lifetimes[k].last_used, h)
               /\ Phys(k, h) = At(O.physical[k].handle_to_physical, h)
        /\ \E B \in BarrierPlans(O.kahn.sorted, m, O.setup.rd, O.setup.wd, O.physical) :
               SamePlan(B, m)

\* C29: when the last passes of a graph declare no output and
\* write nothing that feeds a declared output, and the graph without them
\* compiles, the graph compiles, they are culled, and the live flags, DAG edges, schedule, lifetimes, physical ids and barrier
\* slices of the passes and resources before them are those of the compile
\* of the graph without them; a resource touched by culled passes only has
\* the sentinel physical id.
C29_DeadBranchLeavesPlan ==
    /\ Versioned =>
           \A m \in 1..(PassCount - 1) :
               DeadBranch(m) /\ WithoutBranch(m).status = "compiled" =>
                   status = "compiled" /\ PlanUnaffected(m)
    /\ status = "compiled" =>
           \A k \in Kinds : \A h \in Resources(k) :
               (\A p \in Passes : Touches(k, p, h) => ~Live(p))
                   => Phys(k, h) = invalid_resource

\* A compiled graph of two scheduled passes joined by an edge and a barrier
\* op, followed by a dead pass that reads a scheduled resource and writes a
\* resource of its own.
C29_Witness ==
    /\ status = "compiled"
    /\ PassCount = 3
    /\ DeadBranch(2)
    /\ WithoutBranch(2).status = "compiled"
    /\ sorted_passes = <<0, 1>>
    /\ SuccessorsIn(dag, 0) = {1}
    /\ At(per_pass_barriers.pass_lengths, 1) > 0
    /\ ReadRange("image", 2) # {}
    /\ \E k \in Kinds : \E j \in WriteRange(k, 2) :
           /\ WriteHandle(k, j) \in Resources(k)
           /\ Phys(k, WriteHandle(k, j)) = invalid_resource
           /\ \E h \in Resources(k) : Phys(k, h) # invalid_resource

-----------------------------------------------------------------------------
(* C30: the dependency lists after the setup phase.                        *)

\* The four dependency kinds, each with its flat list.
DepKinds == {"read", "write"} \X Kinds

Deps(d) == IF d[1] = "read" THEN read_deps[d[2]] ELSE write_deps[d[2]]

FlatList(d) == IF d[1] = "read" THEN read_deps[d[2]].read_list ELSE write_deps[d[2]].write_list

\* The positions of the calls of a dependency kind in a sequence of calls.
CallsOfKind(d, calls) ==
    {j \in 1..Len(calls) : calls[j].op = d[1] /\ calls[j].kind = d[2]}

\* The handle call j passes: its literal, or what the latest create call of
\* its kind before it returned, which is the number of create calls of that
\* kind before that one.
HandlePassed(calls, j) ==
    IF ~calls[j].res.local
    THEN calls[j].res.value
    ELSE Max(Cardinality({i \in 1..(j - 1) : calls[i].op = "create"
                                              /\ calls[i].kind = calls[j].kind}) - 1, 0)

\* C30: once the setup phase has run, for each of the four dependency kinds
\* the ranges [begins[p], begins[p] + lengthes[p]) of the passes, in
\* declaration order, start at 0, follow one another without gap or overlap
\* and end at the end of the flat list; the entries of a pass's range are the
\* handles and usages of that pass's calls of that kind, in call order; the
\* list of handles and the list of usages have equal length.
C30_RangesPartitionLists ==
    Versioned =>
        \A d \in DepKinds :
            LET calls == AllCalls(graph.setup_funcs, PassCount)
            IN  /\ Len(Deps(d).begins) = PassCount
                /\ Len(Deps(d).lengthes) = PassCount
                /\ Len(FlatList(d)) = Len(Deps(d).usage_bits)
                /\ PassCount > 0 =>
                       /\ At(Deps(d).begins, 0) = 0
                       /\ At(Deps(d).begins, PassCount - 1)
                              + At(Deps(d).lengthes, PassCount - 1) = Len(FlatList(d))
                /\ \A p \in 0..(PassCount - 2) :
                       At(Deps(d).begins, p + 1)
                           = At(Deps(d).begins, p) + At(Deps(d).lengthes, p)
                /\ \A p \in Passes :
                       /\ At(Deps(d).begins, p)
                              = Cardinality(CallsOfKind(d, AllCalls(graph.setup_funcs, p)))
                       /\ At(Deps(d).lengthes, p)
                              = Cardinality(CallsOfKind(d, graph.setup_funcs[p + 1]))
                /\ \A j \in CallsOfKind(d, calls) :
                       LET n == Cardinality({i \in CallsOfKind(d, calls) : i <= j})
                       IN  /\ n <= Len(FlatList(d))
                           /\ FlatList(d)[n] = HandlePassed(calls, j)
                           /\ Deps(d).usage_bits[n] = calls[j].usage

\* Three passes after the setup phase: one dependency kind has a pass with
\* two entries, and a pass with none between two passes that have some; a
\* call passed a handle it got from create, other than handle 0.
C30_Witness ==
    /\ Versioned
    /\ PassCount = 3
    /\ \E d \in DepKinds : \E p \in Passes : At(Deps(d).lengthes, p) >= 2
    /\ \E d \in DepKinds :
           /\ At(Deps(d).lengthes, 0) > 0
           /\ At(Deps(d).lengthes, 1) = 0
           /\ At(Deps(d).lengthes, 2) > 0
    /\ \E d \in DepKinds : \E n \in 1..Len(FlatList(d)) :
           /\ FlatList(d)[n] > 0
           /\ FlatList(d)[n] < Count(d[2])

-----------------------------------------------------------------------------
(* C31: the five-pass chain of the lifetime and aliasing test.             *)

\* The compiled graph is the chain R1, R2, R3, R4, R5: the five callbacks in
\* this order, so that r1, r2, r3, out, r4 are the images 0 .. 4.
FivePassChain ==
    /\ status = "compiled"
    /\ PassCount = 5
    /\ meta_table.image.names = <<"R1", "R2", "R3", "Out", "R4">>

Lifetime(k, h) == <<FirstUse(k, h), LastUse(k, h)>>

ChainAliasing ==
    /\ Phys("image", 0) # Phys("image", 1)
    /\ Phys("image", 2) = Phys("image", 0)
    /\ Phys("image", 4) # Phys("image", 0)

\* C31 as stated: for the five-pass chain, the lifetimes of r1, r2, r3 are
\* [1,2], [2,3], [3,4] as schedule indices; r1 and r2 are on different
\* slots, r3 is on r1's slot, r4 is on a slot other than r1's.
C31_ChainLifetimesFromOne ==
    FivePassChain =>
        /\ Lifetime("image", 0) = <<1, 2>>
        /\ Lifetime("image", 1) = <<2, 3>>
        /\ Lifetime("image", 2) = <<3, 4>>
        /\ ChainAliasing

\* C31 amended: schedule indices count from 0, so the lifetimes of r1, r2,
\* r3 are [0,1], [1,2], [2,3]; the slots are as stated.
C31_ChainLifetimesFromZero ==
    FivePassChain =>
        /\ sorted_passes = <<0, 1, 2, 3, 4>>
        /\ Lifetime("image", 0) = <<0, 1>>
        /\ Lifetime("image", 1) = <<1, 2>>
        /\ Lifetime("image", 2) = <<2, 3>>
        /\ ChainAliasing

\* The chain compiled, every pass live.
C31_Witness ==
    /\ FivePassChain
    /\ LivePasses = Passes
    /\ Len(physical_resource_metas.image.representative) >= 3

-----------------------------------------------------------------------------
(* C32: pack and unpack.                                                   *)

\* C32: for every handle h and version v that fit a word, pack(h, v) holds
\* h in its low word and v in its high word and fits the double word, and
\* unpack_to_resource and unpack_to_version give h and v back.
C32_PackRoundTrip ==
    /\ codec.stage # "idle" =>
           /\ codec.packed % WordRadix = codec.index
           /\ codec.packed \div WordRadix = codec.version
           /\ codec.packed <= invalid_resource_version
    /\ codec.stage = "unpacked" =>
           /\ codec.unpacked_resource = codec.index
           /\ codec.unpacked_version = codec.version

\* The greatest handle and a version with one bit set have made the round
\* trip.
C32_Witness ==
    /\ codec.stage = "unpacked"
    /\ codec.index = WordRadix - 1
    /\ codec.version = 2 ^ (WordBits - 1)

-----------------------------------------------------------------------------
(* C33: a pass never reads what it writes itself.                          *)

\* The write records on the handle of read record j of pass p that belong
\* to passes declared before p.
WritesBefore(k, p, j) ==
    {i \in WritesTo(k, ReadHandle(k, j)) : OwnerOfWrite(k, i) < p}

\* The last of a set of write records of one handle.
LastWrite(k, W) == CHOOSE i \in W : \A x \in W : x = i \/ EarlierWrite(k, x, i)

WritesThenReads(p) ==
    \E i, j \in 1..Len(graph.setup_funcs[p + 1]) :
        /\ i < j
        /\ graph.setup_funcs[p + 1][i].op = "write"
        /\ graph.setup_funcs[p + 1][j].op = "read"
        /\ graph.setup_funcs[p + 1][i].res = graph.setup_funcs[p + 1][j].res

-----------------------------------------------------------------------------
(* C34: the DAG of compile() points forward in declaration order.          *)

\* C34: unless a host wrote the DAG arrays itself, every edge P -> C of dag
\* has P < C, and compile() has not ended on its cycle assertion.
C34_EdgesPointForward ==
    status # "injected" =>
        /\ \A P \in 0..(Len(dag.adjacency_begins) - 2) :
               \A C \in SuccessorsIn(dag, P) : P < C
        /\ status # CycleMessage

\* A compiled graph whose last pass has two predecessors, one of which
\* reaches it over the other as well.
C34_Witness ==
    /\ status = "compiled"
    /\ PassCount = 3
    /\ SuccessorsIn(dag, 0) = {1, 2}
    /\ SuccessorsIn(dag, 1) = {2}
    /\ sorted_passes = <<0, 1, 2>>

-----------------------------------------------------------------------------
(* C35: overwrites and the readers of the version before.                  *)

\* Pass w writes a version of h greater than v.
WritesLaterVersion(k, w, h, v) ==
    \E i \in WriteRange(k, w) :
        /\ At(ver_write_handles[k], i) # invalid_resource_version
        /\ unpack_to_resource(At(ver_write_handles[k], i)) = h
        /\ unpack_to_version(At(ver_write_handles[k], i)) > v

\* C35: in the schedule of a compiled graph, for every live pass C that
\* reads version v of h, no live pass that writes a greater version of h
\* stands before C.
C35_OverwriteAfterReader ==
    status = "compiled" =>
        \A k \in Kinds : \A c \in LivePasses : \A j \in ReadRange(k, c) :
            At(ver_read_handles[k], j) # invalid_resource_version =>
                \A w \in LivePasses \ {c} :
                    WritesLaterVersion(k, w, unpack_to_resource(At(ver_read_handles[k], j)),
                                       unpack_to_version(At(ver_read_handles[k], j)))
                        => \A x \in Positions(w) : \A y \in Positions(c) : y < x

-----------------------------------------------------------------------------
(* C36: the slot of a declared output.                                     *)

\* C36: in a compiled graph no resource whose lifetime starts after the
\* last use of a non-imported declared output is on that output's physical
\* slot, and two distinct declared outputs are never on one slot.
C36_OutputKeepsItsSlot ==
    status = "compiled" =>
        \A k \in Kinds : \A h \in DeclaredOutputs(k) :
            (h \in Resources(k) /\ Used(k, h) /\ ~IsImported(k, h)) =>
                \A g \in Resources(k) \ {h} :
                    /\ (Used(k, g) /\ FirstUse(k, g) > LastUse(k, h)) => ~SameSlot(k, g, h)
                    /\ (Used(k, g) /\ g \in DeclaredOutputs(k)) => ~SameSlot(k, g, h)
-----------------------------------------------------------------------------
(* C37 *)

\* The infos of the create calls of kind k, in the order compile() runs them.
RECURSIVE CreateInfos(_, _)
CreateInfos(k, p) ==
    IF p > Len(graph.setup_funcs)
    THEN <<>>
    ELSE LET calls == graph.setup_funcs[p]
         IN  [j \in 1..Cardinality({i \in 1..Len(calls) :
                                       calls[i].op = "create" /\ calls[i].kind = k})
                |-> calls[CHOOSE i \in 1..Len(calls) :
                            /\ calls[i].op = "create" /\ calls[i].kind = k
                            /\ Cardinality({l \in 1..i : calls[l].op = "create"
                                                          /\ calls[l].kind = k}) = j].info]
             \o CreateInfos(k, p + 1)

\* The imported flag given to the create call that returned handle h: every
\* compile() runs the same create calls, so handles repeat them in order.
CreatedImported(k, h) ==
    At(CreateInfos(k, 1), h % Len(CreateInfos(k, 1))).imported

ColumnLengths(m) == {Len(m[f]) : f \in DOMAIN m}

\* C37: at every point of a run of add_pass, compile and clear, the columns
\* of the image meta table have one length and the columns of the buffer meta
\* table have one length; and after a successful compile is_imported[h] and
\* is_transient[h] are the flag, and its negation, given to the create call
\* that returned h.
C37_ColumnsSameLength ==
    /\ \A k \in Kinds : Cardinality(ColumnLengths(meta_table[k])) = 1
    /\ status = "compiled" =>
          \A k \in Kinds : \A h \in Resources(k) :
              /\ At(meta_table[k].is_imported, h) = CreatedImported(k, h)
              /\ At(meta_table[k].is_transient, h) = ~CreatedImported(k, h)
-----------------------------------------------------------------------------
(* C38 *)

SlotCount(k) == Len(physical_resource_metas[k].representative)

Slots(k) == 0..(SlotCount(k) - 1)

TouchedByLivePass(k, h) == \E p \in LivePasses : Touches(k, p, h)

\* C38: after a successful compile(), for each kind, handle_to_physical[h]
\* is a valid id exactly when a live pass reads or writes h and the sentinel
\* otherwise; the valid ids are 0 .. |representative| - 1 and each is used;
\* representative[P] is the lowest handle mapped to P, so it maps to P.
C38_PhysicalIdsDense ==
    status = "compiled" =>
      \A k \in Kinds :
        /\ Len(physical_resource_metas[k].handle_to_physical) = Count(k)
        /\ \A h \in Resources(k) :
              /\ TouchedByLivePass(k, h) <=> Phys(k, h) # invalid_resource
              /\ Phys(k, h) # invalid_resource => Phys(k, h) \in Slots(k)
        /\ \A u \in Slots(k) :
              /\ Representative(k, u) \in Resources(k)
              /\ Phys(k, Representative(k, u)) = u
              /\ \A h \in Resources(k) : Phys(k, h) = u => Representative(k, u) <= h

\* A compiled graph with a resource no live pass touches, a slot shared by
\* two resources and a second slot.
C38_Witness ==
    /\ status = "compiled"
    /\ \E k \in Kinds :
          /\ Len(physical_resource_metas[k].handle_to_physical) = Count(k)
          /\ SlotCount(k) >= 2
          /\ \E h \in Resources(k) : Phys(k, h) = invalid_resource
          /\ \E a, b \in Resources(k) : a < b /\ SameSlot(k, a, b)
-----------------------------------------------------------------------------
(* C39 *)

\* What the one compile() of the run computed from the graph: the worklist
\* and ready-queue records with their push counts.
Compiled == CompileResult(graph, EmptyMetaTable)

NoDuplicates(s) == \A i, j \in 1..Len(s) : s[i] = s[j] => i = j

\* C39: compile() comes to an end on every graph.  The culling worklist
\* sees one push per pass whose liveness flag it sets, at most pass_count,
\* and ends empty; the ready queue sees one push per scheduled pass, each a
\* live pass scheduled once, at most pass_count, and ends empty.
C39_LoopsEnd ==
    compile_calls = 1 =>
      LET R == Compiled
      IN  /\ R.stage # "A" =>
                /\ R.cull.flags = active_pass_flags
                /\ R.cull.queue = <<>>
                /\ R.cull.pushes = ActivePassCount(R.cull.flags)
                /\ R.cull.pushes <= PassCount
          /\ R.stage \in {"G", "done"} =>
                /\ R.kahn.sorted = sorted_passes
                /\ R.kahn.queue = <<>>
                /\ R.kahn.pushes = Len(R.kahn.sorted)
                /\ NoDuplicates(R.kahn.sorted)
                /\ \A i \in 1..Len(R.kahn.sorted) : R.kahn.sorted[i] \in LivePasses
                /\ R.kahn.pushes <= PassCount

\* A compiled graph in which one pass produces for two live passes, so the
\* worklist meets it twice, and one pass waits for two predecessors, so
\* the ready queue gets it from the second.
C39_Witness ==
    /\ status = "compiled"
    /\ compile_calls = 1
    /\ \E p \in LivePasses : At(dag.out_degrees, p) >= 2
    /\ \E q \in LivePasses : At(dag.in_degrees, q) >= 2
    /\ Compiled.cull.pushes = PassCount
    /\ Compiled.kahn.pushes = PassCount

====
